---- MODULE Spec2Model ----
(***************************************************************************)
(* Model of mlearning/helpers/deep_learning/layers.py: the Layer image <-> *)
(* column transforms, the ConvolutionTwoD layer and the Activation layer.  *)
(*                                                                         *)
(* An ndarray is a record [ok, shape, data]: data is the flat buffer in C  *)
(* (row-major) order, shape the tuple of dimensions.  A call that raises   *)
(* is the record Raise (ok = FALSE).  Indices are 0-based as in the        *)
(* source; data[k + 1] holds flat position k.                              *)
(*                                                                         *)
(* heap holds the mutable objects that several Python references can share *)
(* (the state object of an optimizer); an attribute that holds such an     *)
(* object is modelled as its address in heap.  calls counts the            *)
(* forward_pass and backward_pass calls made on the layer.                 *)
(***************************************************************************)
EXTENDS Integers, Sequences, FiniteSets, TLC

VARIABLES self, op, arg, ret, heap, calls

vars == <<self, op, arg, ret, heap, calls>>

(***************************************************************************)
(* Bounds of the explored inputs.                                          *)
(***************************************************************************)
MaxHW == 3
MaxFltr == 2
MaxStride == 2
MaxPaddedFltr == 6
\* The forward_pass and backward_pass calls explored on one layer.
MaxCalls == 3

Channels == 1..2
Filters == 1..2
BatchSizes == 1..2

(***************************************************************************)
(* numpy primitives, as the source uses them.                              *)
(***************************************************************************)
Arr(shape, data) == [ok |-> TRUE, shape |-> shape, data |-> data]

Raise == [ok |-> FALSE, shape |-> <<>>, data |-> <<>>]

None == [ok |-> FALSE, shape |-> <<-1>>, data |-> <<>>]

RECURSIVE Prod(_)
Prod(s) == IF s = <<>> THEN 1 ELSE Head(s) * Prod(Tail(s))

\* The sum of s[lo..hi], by halves.
RECURSIVE SumRange(_, _, _)
SumRange(s, lo, hi) ==
    IF lo > hi THEN 0
    ELSE IF lo = hi THEN s[lo]
    ELSE LET mid == (lo + hi) \div 2
         IN  SumRange(s, lo, mid) + SumRange(s, mid + 1, hi)

Sum(s) == SumRange(s, 1, Len(s))

Strides(shape) ==
    [k \in 1..Len(shape) |-> Prod(SubSeq(shape, k + 1, Len(shape)))]

Unravel(o, shape, strd) ==
    [k \in 1..Len(shape) |-> (o \div strd[k]) % shape[k]]

Ravel(idx, strd) ==
    IF Len(idx) = 4
    THEN idx[1] * strd[1] + idx[2] * strd[2] + idx[3] * strd[3] + idx[4] * strd[4]
    ELSE IF Len(idx) = 3
    THEN idx[1] * strd[1] + idx[2] * strd[2] + idx[3] * strd[3]
    ELSE Sum([k \in 1..Len(idx) |-> idx[k] * strd[k]])

\* int(x / d) for d > 0: Python's int() truncates toward zero.
IntTrunc(x, d) == IF x >= 0 THEN x \div d ELSE -((-x) \div d)

FloorHalf(x) == x \div 2

CeilHalf(x) == -((-x) \div 2)

\* np.arange(n): empty when n <= 0.
Arange(n) ==
    LET m == IF n > 0 THEN n ELSE 0
    IN  Arr(<<m>>, [k \in 1..m |-> k - 1])

\* np.repeat(x, k): every element k times; a negative total length raises.
Repeat(x, k) ==
    IF ~x.ok \/ Len(x.data) * k < 0 THEN Raise
    ELSE LET n == IF k > 0 THEN Len(x.data) * k ELSE 0
         IN  Arr(<<n>>, [i \in 1..n |-> x.data[((i - 1) \div k) + 1]])

\* np.tile(x, reps): x repeated reps times; of a non-empty x a negative reps raises.
Tile(x, reps) ==
    IF ~x.ok \/ (Len(x.data) > 0 /\ reps < 0) THEN Raise
    ELSE LET m == Len(x.data)
             n == IF reps > 0 THEN m * reps ELSE 0
         IN  Arr(<<n>>, [i \in 1..n |-> x.data[((i - 1) % m) + 1]])

Scale(s, x) ==
    IF ~x.ok THEN Raise ELSE Arr(x.shape, [i \in 1..Len(x.data) |-> s * x.data[i]])

\* a.reshape(-1, 1) + b.reshape(1, -1): the (len a, len b) outer sum.
OuterSum(a, b) ==
    IF ~a.ok \/ ~b.ok THEN Raise
    ELSE LET r == Len(a.data)
             q == Len(b.data)
         IN  Arr(<<r, q>>,
                 [i \in 1..(r * q) |->
                     a.data[((i - 1) \div q) + 1] + b.data[((i - 1) % q) + 1]])

\* a.reshape(newshape); at most one dimension may be negative and is inferred.
Reshape(a, newshape) ==
    IF ~a.ok THEN Raise
    ELSE LET size == Len(a.data)
             unknown == {k \in 1..Len(newshape) : newshape[k] < 0}
             known == Prod([k \in 1..Len(newshape) |->
                              IF newshape[k] < 0 THEN 1 ELSE newshape[k]])
         IN  IF Cardinality(unknown) > 1 THEN Raise
             ELSE IF Cardinality(unknown) = 1
                  THEN IF known = 0 THEN Raise
                       ELSE IF size % known # 0 THEN Raise
                       ELSE Arr([k \in 1..Len(newshape) |->
                                    IF newshape[k] < 0 THEN size \div known
                                    ELSE newshape[k]], a.data)
             ELSE IF known # size THEN Raise
             ELSE Arr(newshape, a.data)

\* a.transpose(axes): axis k of the result is axis axes[k] of a.
Transpose(a, axes) ==
    IF ~a.ok THEN Raise
    ELSE LET n == Len(a.shape)
             newshape == [k \in 1..n |-> a.shape[axes[k] + 1]]
             nstrd == Strides(newshape)
             ostrd == Strides(a.shape)
             pstrd == [k \in 1..n |-> ostrd[axes[k] + 1]]
         IN  Arr(newshape,
                 [o \in 1..Prod(newshape) |->
                     a.data[Ravel(Unravel(o - 1, newshape, nstrd), pstrd) + 1]])

\* np.pad(images, ((0, 0), (0, 0), pad_h, pad_w), mode='constant')
Pad(images, pad_h, pad_w) ==
    LET s == images.shape
        ns == <<s[1], s[2], s[3] + pad_h[1] + pad_h[2], s[4] + pad_w[1] + pad_w[2]>>
        nstrd == Strides(ns)
        ostrd == Strides(s)
    IN  Arr(ns,
            [o \in 1..Prod(ns) |->
                LET m == Unravel(o - 1, ns, nstrd)
                    y == m[3] - pad_h[1]
                    x == m[4] - pad_w[1]
                IN  IF y >= 0 /\ y < s[3] /\ x >= 0 /\ x < s[4]
                    THEN images.data[Ravel(<<m[1], m[2], y, x>>, ostrd) + 1]
                    ELSE 0])

\* A.dot(B) of two matrices.
Dot(A, B) ==
    IF ~A.ok \/ ~B.ok THEN Raise
    ELSE IF A.shape[2] # B.shape[1] THEN Raise
    ELSE LET f == A.shape[1]
             r == A.shape[2]
             n == B.shape[2]
         IN  Arr(<<f, n>>,
                 [o \in 1..(f * n) |->
                     LET i == (o - 1) \div n
                         j == (o - 1) % n
                     IN  Sum([k \in 1..r |->
                                A.data[i * r + k] * B.data[(k - 1) * n + j + 1]])])

\* M + col for M of shape (f, n) and col of shape (f, 1): numpy broadcasting.
AddColumn(M, col) ==
    IF ~M.ok \/ ~col.ok THEN Raise
    ELSE LET n == M.shape[2]
         IN  Arr(M.shape,
                 [o \in 1..Len(M.data) |-> M.data[o] + col.data[((o - 1) \div n) + 1]])

\* a[:, ind_k, ind_i, ind_j] for a of rank 4 and index arrays of shapes
\* (R, 1), (R, Q), (R, Q): the (B, R, Q) array of the selected entries.
Gather(a, ind_k, ind_i, ind_j) ==
    IF ~a.ok \/ ~ind_k.ok \/ ~ind_i.ok \/ ~ind_j.ok THEN Raise
    ELSE LET b == a.shape[1]
             r == ind_i.shape[1]
             q == ind_i.shape[2]
             strd == Strides(a.shape)
         IN  IF \/ \E t \in 1..Len(ind_k.data) : ind_k.data[t] >= a.shape[2]
                \/ \E t \in 1..Len(ind_i.data) : ind_i.data[t] >= a.shape[3]
                \/ \E t \in 1..Len(ind_j.data) : ind_j.data[t] >= a.shape[4]
             THEN Raise
             ELSE Arr(<<b, r, q>>,
                      [o \in 1..(b * r * q) |->
                          LET n == (o - 1) \div (r * q)
                              rr == ((o - 1) \div q) % r
                              t == ((o - 1) % (r * q)) + 1
                          IN  a.data[Ravel(<<n, ind_k.data[rr + 1],
                                             ind_i.data[t], ind_j.data[t]>>, strd) + 1]])

\* np.add.at(buf, (slice(None), ind_k, ind_i, ind_j), vals): unbuffered in-place
\* addition, so every entry of vals (B, R, Q) is added to the entry of buf it
\* indexes, repeated indices included.
AddAt(buf, shape, ind_k, ind_i, ind_j, vals) ==
    LET strd == Strides(shape)
        r == vals.shape[2]
        q == vals.shape[3]
    IN  [p \in 1..Len(buf) |->
            LET m == Unravel(p - 1, shape, strd)
            IN  buf[p] + Sum([e \in 1..(r * q) |->
                    IF /\ ind_k.data[((e - 1) \div q) + 1] = m[2]
                       /\ ind_i.data[e] = m[3]
                       /\ ind_j.data[e] = m[4]
                    THEN vals.data[m[1] * r * q + e]
                    ELSE 0])]

\* a[:, :, y0:y0 + h, x0:x0 + w]
Slice(a, y0, h, x0, w) ==
    LET ns == <<a.shape[1], a.shape[2], h, w>>
        nstrd == Strides(ns)
        ostrd == Strides(a.shape)
    IN  Arr(ns,
            [o \in 1..Prod(ns) |->
                LET m == Unravel(o - 1, ns, nstrd)
                IN  a.data[Ravel(<<m[1], m[2], m[3] + y0, m[4] + x0>>, ostrd) + 1]])

(***************************************************************************)
(* class Layer: the image <-> column transforms.                           *)
(***************************************************************************)

\* OutSize without the "+ 1".
OutSize_without_one(n, stride) == IntTrunc(n, stride)

\* int((n) / stride + 1), n the padded extent minus the filter extent.
OutSize(n, stride) == IntTrunc(n + stride, stride)

\* get_padding with floor on both edges.
get_padding_floor_both(fltr_shape, output_shape) ==
    IF ~output_shape THEN <<<<0, 0>>, <<0, 0>>>>
    ELSE <<<<FloorHalf(fltr_shape[1] - 1), FloorHalf(fltr_shape[1] - 1)>>,
           <<FloorHalf(fltr_shape[2] - 1), FloorHalf(fltr_shape[2] - 1)>>>>

\* get_padding with the whole padding on the low edge.
get_padding_low_edge(fltr_shape, output_shape) ==
    IF ~output_shape THEN <<<<0, 0>>, <<0, 0>>>>
    ELSE <<<<fltr_shape[1] - 1, 0>>, <<fltr_shape[2] - 1, 0>>>>

get_padding(fltr_shape, output_shape) ==
    IF ~output_shape THEN <<<<0, 0>>, <<0, 0>>>>
    ELSE LET flt_height == fltr_shape[1]
             flt_width == fltr_shape[2]
             padd_ht_a == FloorHalf(flt_height - 1)
             padd_ht_b == CeilHalf(flt_height - 1)
             padd_wt_a == FloorHalf(flt_width - 1)
             padd_wt_b == CeilHalf(flt_width - 1)
         IN  <<<<padd_ht_a, padd_ht_b>>, <<padd_wt_a, padd_wt_b>>>>

\* get_img_cols_indices whose row offsets scan the output grid by columns.
get_img_cols_indices_by_columns(img_shape, fltr_shape, padding, stride) ==
    LET channels == img_shape[2]
        height == img_shape[3]
        width == img_shape[4]
        fltr_height == fltr_shape[1]
        fltr_width == fltr_shape[2]
        pad_h == padding[1]
        pad_w == padding[2]
        out_height == OutSize(height + Sum(pad_h) - fltr_height, stride)
        out_width == OutSize(width + Sum(pad_w) - fltr_width, stride)
        ind_i0 == Tile(Repeat(Arange(fltr_height), fltr_width), channels)
        ind_i1 == Scale(stride, Tile(Arange(out_height), out_width))
        ind_j0 == Tile(Arange(fltr_width), fltr_height * channels)
        ind_j1 == Scale(stride, Tile(Arange(out_width), out_height))
        ind_i == OuterSum(ind_i0, ind_i1)
        ind_j == OuterSum(ind_j0, ind_j1)
        ind_k == Reshape(Repeat(Arange(channels), fltr_height * fltr_width), <<-1, 1>>)
    IN  [ok |-> ind_k.ok /\ ind_i.ok /\ ind_j.ok,
         k |-> ind_k, i |-> ind_i, j |-> ind_j,
         out_height |-> out_height, out_width |-> out_width]

get_img_cols_indices(img_shape, fltr_shape, padding, stride) ==
    LET channels == img_shape[2]
        height == img_shape[3]
        width == img_shape[4]
        fltr_height == fltr_shape[1]
        fltr_width == fltr_shape[2]
        pad_h == padding[1]
        pad_w == padding[2]
        out_height == OutSize(height + Sum(pad_h) - fltr_height, stride)
        out_width == OutSize(width + Sum(pad_w) - fltr_width, stride)
        ind_i0 == Tile(Repeat(Arange(fltr_height), fltr_width), channels)
        ind_i1 == Scale(stride, Repeat(Arange(out_height), out_width))
        ind_j0 == Tile(Arange(fltr_width), fltr_height * channels)
        ind_j1 == Scale(stride, Tile(Arange(out_width), out_height))
        ind_i == OuterSum(ind_i0, ind_i1)
        ind_j == OuterSum(ind_j0, ind_j1)
        ind_k == Reshape(Repeat(Arange(channels), fltr_height * fltr_width), <<-1, 1>>)
    IN  [ok |-> ind_k.ok /\ ind_i.ok /\ ind_j.ok,
         k |-> ind_k, i |-> ind_i, j |-> ind_j,
         out_height |-> out_height, out_width |-> out_width]

\* reshape_image_to_col that keeps the batch axis ahead of the output positions.
reshape_image_to_col_batch_major(images, fltr_shape, stride, output_shape) ==
    LET pad == get_padding(fltr_shape, output_shape)
        ind == get_img_cols_indices(images.shape, fltr_shape, pad, stride)
        cols == Gather(Pad(images, pad[1], pad[2]), ind.k, ind.i, ind.j)
    IN  IF ~ind.ok THEN Raise
        ELSE Reshape(Transpose(cols, <<1, 0, 2>>),
                     <<fltr_shape[1] * fltr_shape[2] * images.shape[2], -1>>)

reshape_image_to_col(images, fltr_shape, stride, output_shape) ==
    LET fltr_height == fltr_shape[1]
        fltr_width == fltr_shape[2]
        pad == get_padding(fltr_shape, output_shape)
        padded_imgs == Pad(images, pad[1], pad[2])
        ind == get_img_cols_indices(images.shape, fltr_shape, pad, stride)
        cols == Gather(padded_imgs, ind.k, ind.i, ind.j)
        channels == images.shape[2]
    IN  IF ~ind.ok THEN Raise
        ELSE Reshape(Transpose(cols, <<1, 2, 0>>),
                     <<fltr_height * fltr_width * channels, -1>>)

\* np.empty leaves the buffer uninitialised: mem is what the memory held.
reshape_col_to_image(cols, imgs_shape, fltr_shape, stride, output_shape, mem) ==
    LET batch_size == imgs_shape[1]
        channels == imgs_shape[2]
        height == imgs_shape[3]
        width == imgs_shape[4]
        pad == get_padding(fltr_shape, output_shape)
        pad_h == pad[1]
        pad_w == pad[2]
        padded_h == height + Sum(pad_h)
        padded_w == width + Sum(pad_w)
        pshape == <<batch_size, channels, padded_h, padded_w>>
        padded_imgs == [o \in 1..Prod(pshape) |-> mem]
        ind == get_img_cols_indices(imgs_shape, fltr_shape, pad, stride)
        cols_reshaped == Transpose(
            Reshape(cols, <<channels * Prod(fltr_shape), -1, batch_size>>), <<2, 0, 1>>)
    IN  IF ~ind.ok \/ ~cols_reshaped.ok THEN Raise
        ELSE IF cols_reshaped.shape # <<batch_size, ind.i.shape[1], ind.i.shape[2]>>
             THEN Raise
        ELSE IF \/ \E t \in 1..Len(ind.i.data) : ind.i.data[t] >= padded_h
                \/ \E t \in 1..Len(ind.j.data) : ind.j.data[t] >= padded_w
             THEN Raise
        ELSE Slice(Arr(pshape, AddAt(padded_imgs, pshape, ind.k, ind.i, ind.j,
                                     cols_reshaped)),
                   pad_h[1], height, pad_w[1], width)

(***************************************************************************)
(* The optimizer a layer is given: an object with update(w, grad), copied  *)
(* once for every parameter tensor.                                        *)
(***************************************************************************)
\* The addresses of the optimizers' mutable state objects.
StateObjects == {"state"}

\* The optimizer prototype handed to init_weights: update() returns a new tensor
\* and rebinds its own attribute t, the number of updates it has made.
Optimizer ==
    [name |-> "optimizer", in_place |-> FALSE, state_object |-> FALSE,
     t |-> 0, state |-> "state"]

\* The prototypes explored: update() returns a new tensor or modifies the one it
\* was given, and keeps its count in an attribute it rebinds or in a mutable
\* state object that the attribute state refers to.
Optimizers ==
    {[Optimizer EXCEPT !.in_place = i, !.state_object = m] : i, m \in BOOLEAN}

\* copy.copy(optimizer): a new object whose attributes are bound to the same
\* values and objects as the original's.
copy_copy(optimizer) == optimizer

\* What an optimizer shows of its internal state.
optimizer_state(o, h) == IF o.state_object THEN h[o.state] ELSE o.t

\* optimizer.update(w, grad): one more update counted, w - grad returned; value
\* is the returned tensor, which is w itself (modified) when in_place.
optimizer_update(o, w, grad, h) ==
    LET t == optimizer_state(o, h) + 1
        ok == w.ok /\ grad.ok /\ Len(w.data) = Len(grad.data)
    IN  [ok |-> ok,
         optimizer |-> IF o.state_object THEN o ELSE [o EXCEPT !.t = t],
         heap |-> IF o.state_object THEN [h EXCEPT ![o.state] = t] ELSE h,
         value |-> IF ok
                   THEN Arr(w.shape, [k \in 1..Len(w.data) |-> w.data[k] - grad.data[k]])
                   ELSE Raise]

(***************************************************************************)
(* class ConvolutionTwoD                                                   *)
(***************************************************************************)

\* output_shape that leaves the padding out.
output_shape_without_padding(s) ==
    <<s.no_of_filters,
      OutSize(s.input_shape[2] - s.filter_shape[1], s.stride),
      OutSize(s.input_shape[3] - s.filter_shape[2], s.stride)>>

output_shape(s) ==
    LET height == s.input_shape[2]
        width == s.input_shape[3]
        padd == get_padding(s.filter_shape, s.padding)
        output_height == OutSize(height + Sum(padd[1]) - s.filter_shape[1], s.stride)
        output_width == OutSize(width + Sum(padd[2]) - s.filter_shape[2], s.stride)
    IN  <<s.no_of_filters, output_height, output_width>>

\* The layer after forward_pass(X) and what the call returns.  A statement that
\* raises ends the call: the attributes assigned before it keep their new values.
\* weight_.reshape(...) of a contiguous array is a view: W_col_is_view records
\* that W_col shares the buffer of the array weight_ is bound to.
forward_pass(s, X) ==
    LET batch_size == X.shape[1]
        s1 == [s EXCEPT !.input_layer = X]
        X_col == reshape_image_to_col(X, s.filter_shape, s.stride, s.padding)
        s2 == [s1 EXCEPT !.X_col = X_col]
        W_col == Reshape(s.weight_, <<s.no_of_filters, -1>>)
        s3 == [s2 EXCEPT !.W_col = W_col, !.W_col_is_view = TRUE]
        output == AddColumn(Dot(W_col, X_col), s.weight_out)
        shaped == Reshape(output, output_shape(s) \o <<batch_size>>)
    IN  IF ~X_col.ok THEN [self |-> s1, ret |-> Raise]
        ELSE IF ~W_col.ok THEN [self |-> s2, ret |-> Raise]
        ELSE [self |-> s3, ret |-> Transpose(shaped, <<3, 0, 1, 2>>)]

\* np.sum(a, axis=1, keepdims=True) of a matrix.
SumAxis1(a) ==
    IF ~a.ok THEN Raise
    ELSE LET n == a.shape[2]
         IN  Arr(<<a.shape[1], 1>>,
                 [i \in 1..a.shape[1] |->
                     Sum([j \in 1..n |-> a.data[(i - 1) * n + j]])])

\* backward_pass(grad), statement by statement from the last one back.  Each
\* step yields the layer, the heap and what the call returns; a statement that
\* raises ends the call with the assignments made before it.

\* return reshape_col_to_image(accumulated_grad, self.input_layer.shape, ...)
backward_return(t, h, propagated, mem) ==
    IF ~propagated.ok \/ ~t.input_layer.ok
    THEN [self |-> t, heap |-> h, ret |-> Raise]
    ELSE [self |-> t, heap |-> h,
          ret |-> reshape_col_to_image(propagated, t.input_layer.shape,
                                       t.filter_shape, t.stride, t.padding, mem)]

\* accumulated_grad = self.W_col.T.dot(accumulated_grad)
backward_propagate(u, accumulated_grad, mem) ==
    IF ~u.ok THEN [self |-> u.self, heap |-> u.heap, ret |-> Raise]
    ELSE backward_return(u.self, u.heap,
                         Dot(Transpose(u.self.W_col, <<1, 0>>), accumulated_grad), mem)

\* self.weight_out = self.optimized_w_out.update(self.weight_out, grad_w_out)
update_weight_out(s1, h1, u2) ==
    IF ~u2.ok THEN [ok |-> FALSE, self |-> s1, heap |-> h1]
    ELSE [ok |-> TRUE,
          self |-> [s1 EXCEPT !.weight_out = u2.value, !.optimized_w_out = u2.optimizer],
          heap |-> u2.heap]

\* self.weight_ = self.optimized_w.update(self.weight_, grad_weight): an update
\* in place writes the buffer of weight_, which a W_col that is a view of it
\* shares; a new tensor leaves W_col a view of the old one.
update_weight_(s, h, accumulated_grad, u1) ==
    IF ~u1.ok THEN [ok |-> FALSE, self |-> s, heap |-> h]
    ELSE update_weight_out(
             [s EXCEPT !.weight_ = u1.value,
                       !.optimized_w = u1.optimizer,
                       !.W_col = IF s.optimized_w.in_place /\ s.W_col_is_view
                                 THEN Arr(s.W_col.shape, u1.value.data) ELSE @,
                       !.W_col_is_view = s.optimized_w.in_place /\ @],
             u1.heap,
             optimizer_update(s.optimized_w_out, s.weight_out,
                              SumAxis1(accumulated_grad), u1.heap))

\* if self.trainable: grad_weight, grad_w_out and the two updates.
update_parameters(s, h, accumulated_grad, grad_weight) ==
    IF ~s.trainable THEN [ok |-> TRUE, self |-> s, heap |-> h]
    ELSE IF ~grad_weight.ok THEN [ok |-> FALSE, self |-> s, heap |-> h]
    ELSE update_weight_(s, h, accumulated_grad,
                        optimizer_update(s.optimized_w, s.weight_, grad_weight, h))

\* The product left as the (no_of_filters, channels * fh * fw) matrix.
grad_weight_of_without_reshape(s, accumulated_grad) ==
    IF s.weight_.ok
    THEN Dot(accumulated_grad, Transpose(s.X_col, <<1, 0>>))
    ELSE Raise

\* accumulated_grad.dot(self.X_col.T).reshape(self.weight_.shape)
grad_weight_of(s, accumulated_grad) ==
    IF s.weight_.ok
    THEN Reshape(Dot(accumulated_grad, Transpose(s.X_col, <<1, 0>>)), s.weight_.shape)
    ELSE Raise

backward_from(s, accumulated_grad, h, mem) ==
    IF ~accumulated_grad.ok THEN [self |-> s, heap |-> h, ret |-> Raise]
    ELSE backward_propagate(
             update_parameters(s, h, accumulated_grad,
                               grad_weight_of(s, accumulated_grad)),
             accumulated_grad, mem)

\* The layer, the heap and the returned gradient after backward_pass(grad); mem
\* is what reshape_col_to_image's buffer held.
backward_pass(s, grad, h, mem) ==
    backward_from(s, Reshape(Transpose(grad, <<1, 2, 3, 0>>), <<s.no_of_filters, -1>>),
                  h, mem)

(***************************************************************************)
(* class Activation                                                        *)
(***************************************************************************)
\* The registry without its last entry.
activation_functions_without_softmax ==
    [ReLu |-> "Rectified_Linear_Units",
     sigmoid |-> "Sigmoid",
     selu |-> "SELU",
     softplus |-> "SoftPlus",
     leaky_relu |-> "LeakyReLu",
     elu |-> "ELU",
     tanh |-> "TanH"]

activation_functions ==
    [ReLu |-> "Rectified_Linear_Units",
     sigmoid |-> "Sigmoid",
     selu |-> "SELU",
     softplus |-> "SoftPlus",
     leaky_relu |-> "LeakyReLu",
     elu |-> "ELU",
     tanh |-> "TanH",
     softmax |-> "SoftMax"]

\* A lookup that falls back to a default class for an unregistered name.
registry_get_with_default(name) ==
    IF name \in DOMAIN activation_functions
    THEN activation_functions[name] ELSE "Rectified_Linear_Units"

\* activation_functions.get(name): the registered class, or None.
registry_get(name) ==
    IF name \in DOMAIN activation_functions THEN activation_functions[name] ELSE "None"

(***************************************************************************)
(* The tensors and names the calls are explored with.                      *)
(***************************************************************************)
Ones(shape) == Arr(shape, [k \in 1..Prod(shape) |-> 1])

Zeros(shape) == Arr(shape, [k \in 1..Prod(shape) |-> 0])

Ramp(shape) == Arr(shape, [k \in 1..Prod(shape) |-> k])

\* np.random.uniform(-limit, limit, size): the draws explored, as integer
\* multiples of limit / Prod(shape).
WeightDraws(shape) == {Ones(shape), Ramp(shape)}

Images(input_shape) == {Ramp(<<b>> \o input_shape) : b \in BatchSizes}

FilterShapes == (1..MaxFltr) \X (1..MaxFltr)

InputShapes == Channels \X (1..MaxHW) \X (1..MaxHW)

StrideValues == 1..MaxStride

\* What the memory of an np.empty buffer may hold.
UninitialisedMemory == {0, 5}

ActivationNames ==
    {"ReLu", "relu", "sigmoid", "selu", "softplus", "leaky_relu", "elu", "tanh",
     "softmax", "linear"}

\* The scenario of the specification: two 3x3 filters of ones over a 4x4 image of
\* ones, and the same layer over the smaller and larger shapes around it.
ScenarioMaxHW == 4
ScenarioMaxFltr == 3

ScenarioFilterShapes == (1..ScenarioMaxFltr) \X (1..ScenarioMaxFltr)

ScenarioInputShapes == {1} \X (1..ScenarioMaxHW) \X (1..ScenarioMaxHW)

(***************************************************************************)
(* The state machine: one layer object and the calls made on it.  op is    *)
(* the last call, arg its argument and ret what it returned (Raise when it *)
(* raised).                                                                *)
(***************************************************************************)
Init ==
    /\ self = [class |-> "none"]
    /\ op = "none"
    /\ arg = <<>>
    /\ ret = <<>>
    /\ heap = [a \in StateObjects |-> 0]
    /\ calls = 0

Construct(nfilters, fshapes, ishapes, paddings, strides, trainables) ==
    /\ self.class = "none"
    /\ op = "none"
    /\ \E no_of_filters \in nfilters, filter_shape \in fshapes,
          input_shape \in ishapes, padding \in paddings, stride \in strides,
          trainable \in trainables :
         self' = [class |-> "ConvolutionTwoD",
                  no_of_filters |-> no_of_filters,
                  filter_shape |-> filter_shape,
                  input_shape |-> input_shape,
                  padding |-> padding,
                  stride |-> stride,
                  trainable |-> trainable,
                  weight_ |-> None, weight_out |-> None,
                  optimized_w |-> None, optimized_w_out |-> None,
                  input_layer |-> None, X_col |-> None, W_col |-> None,
                  W_col_is_view |-> FALSE]
    /\ op' = "__init__"
    /\ arg' = <<>>
    /\ ret' = <<>>
    /\ UNCHANGED <<heap, calls>>

ConvolutionTwoD__init__ ==
    Construct(Filters, FilterShapes, InputShapes, BOOLEAN, StrideValues, {TRUE})

\* 1 / limit^2 for limit = 1 / math.sqrt(np.prod(self.filter_shape)).
inverse_limit_squared(s) == Prod(s.filter_shape)

\* init_weights(optimizer); arg records the prototype and 1 / limit^2 of the
\* interval the weights were drawn from.
InitWeights(optimizers) ==
    /\ self.class = "ConvolutionTwoD"
    /\ op = "__init__"
    /\ \E optimizer \in optimizers :
         /\ \E w \in WeightDraws(<<self.no_of_filters, self.input_shape[1],
                                   self.filter_shape[1], self.filter_shape[2]>>) :
              self' = [self EXCEPT !.weight_ = w,
                                   !.weight_out = Zeros(<<self.no_of_filters, 1>>),
                                   !.optimized_w = copy_copy(optimizer),
                                   !.optimized_w_out = copy_copy(optimizer),
                                   !.W_col_is_view = FALSE]
         /\ arg' = [optimizer |-> optimizer,
                    inverse_limit_squared |-> inverse_limit_squared(self)]
    /\ op' = "init_weights"
    /\ ret' = <<>>
    /\ UNCHANGED <<heap, calls>>

ConvolutionTwoD_init_weights == InitWeights({Optimizer})

\* The caller assigns the parameter tensors of an initialised layer, as the
\* scenario of the specification does (all-ones weights).
AssignParameters(weights, biases) ==
    /\ self.class = "ConvolutionTwoD"
    /\ op = "init_weights"
    /\ \E w \in weights, b \in biases :
         self' = [self EXCEPT !.weight_ = w, !.weight_out = b,
                              !.W_col_is_view = FALSE]
    /\ op' = "assign"
    /\ arg' = <<>>
    /\ ret' = <<>>
    /\ UNCHANGED <<heap, calls>>

ConvolutionTwoD_assign ==
    AssignParameters(
        WeightDraws(<<self.no_of_filters, self.input_shape[1],
                      self.filter_shape[1], self.filter_shape[2]>>),
        {Ramp(<<self.no_of_filters, 1>>)})

ForwardAfter(ops, images) ==
    /\ self.class = "ConvolutionTwoD"
    /\ op \in ops
    /\ calls < MaxCalls
    /\ \E X \in images :
         LET r == forward_pass(self, X)
         IN  /\ self' = r.self
             /\ ret' = r.ret
             /\ arg' = X
    /\ op' = "forward_pass"
    /\ calls' = calls + 1
    /\ UNCHANGED heap

Forward(images) == ForwardAfter({"__init__", "init_weights", "assign"}, images)

ConvolutionTwoD_forward_pass == Forward(Images(self.input_shape))

\* output_shape() reads the hyperparameters alone: it is explored on the layer
\* as constructed.
ConvolutionTwoD_output_shape ==
    /\ self.class = "ConvolutionTwoD"
    /\ op = "__init__"
    /\ op' = "output_shape"
    /\ arg' = <<>>
    /\ ret' = output_shape(self)
    /\ UNCHANGED <<self, heap, calls>>

\* Activation(name): the constructor raises when the registry has no such name,
\* and then no layer object exists.
ActivationInit(names) ==
    /\ self.class = "none"
    /\ op = "none"
    /\ \E name \in names :
         /\ arg' = name
         /\ IF registry_get(name) = "None"
            THEN /\ self' = self
                 /\ ret' = Raise
            ELSE /\ self' = [class |-> "Activation",
                             activation_name |-> name,
                             activation_func |-> registry_get(name),
                             trainable |-> TRUE,
                             input_layer |-> None]
                 /\ ret' = Arr(<<>>, <<>>)
    /\ op' = "Activation"
    /\ UNCHANGED <<heap, calls>>

Activation__init__ == ActivationInit(ActivationNames)

Layer_get_padding ==
    /\ self.class = "none"
    /\ op = "none"
    /\ \E fltr_shape \in (1..MaxPaddedFltr) \X (1..MaxPaddedFltr), flag \in BOOLEAN :
         /\ arg' = [fltr_shape |-> fltr_shape, output_shape |-> flag]
         /\ ret' = get_padding(fltr_shape, flag)
    /\ op' = "get_padding"
    /\ UNCHANGED <<self, heap, calls>>

Layer_reshape_image_to_col ==
    /\ self.class = "none"
    /\ op = "none"
    /\ \E input_shape \in InputShapes, fltr_shape \in FilterShapes,
          stride \in StrideValues, flag \in BOOLEAN :
         \E images \in Images(input_shape) :
            /\ arg' = [images |-> images, fltr_shape |-> fltr_shape,
                       stride |-> stride, output_shape |-> flag]
            /\ ret' = reshape_image_to_col(images, fltr_shape, stride, flag)
    /\ op' = "reshape_image_to_col"
    /\ UNCHANGED <<self, heap, calls>>

\* reshape_col_to_image on the columns reshape_image_to_col has just returned;
\* arg.memory records what the np.empty buffer held.
Layer_reshape_col_to_image ==
    /\ self.class = "none"
    /\ op = "reshape_image_to_col"
    /\ ret.ok
    /\ \E mem \in UninitialisedMemory :
         /\ ret' = reshape_col_to_image(ret, arg.images.shape, arg.fltr_shape,
                                        arg.stride, arg.output_shape, mem)
         /\ arg' = [images |-> arg.images, fltr_shape |-> arg.fltr_shape,
               stride |-> arg.stride, output_shape |-> arg.output_shape, cols |-> ret,
               memory |-> mem]
    /\ op' = "reshape_col_to_image"
    /\ UNCHANGED <<self, heap, calls>>

Next ==
    \/ ConvolutionTwoD__init__
    \/ ConvolutionTwoD_init_weights
    \/ ConvolutionTwoD_assign
    \/ ConvolutionTwoD_forward_pass
    \/ ConvolutionTwoD_output_shape
    \/ Activation__init__
    \/ Layer_get_padding
    \/ Layer_reshape_image_to_col
    \/ Layer_reshape_col_to_image

Spec == Init /\ [][Next]_vars

(***************************************************************************)
(* The scenario ConvolutionTwoD(no_of_filters=2, filter_shape=(3, 3),      *)
(* stride=1, padding=True) with all-ones weights, zero bias and an         *)
(* all-ones one-image batch, within its family of shapes.                  *)
(***************************************************************************)
Scenario__init__ ==
    Construct({2}, ScenarioFilterShapes, ScenarioInputShapes, {TRUE}, {1}, {TRUE})

Scenario_assign ==
    AssignParameters(
        {Ones(<<self.no_of_filters, self.input_shape[1],
                self.filter_shape[1], self.filter_shape[2]>>)},
        {Zeros(<<self.no_of_filters, 1>>)})

Scenario_forward_pass ==
    /\ op = "assign"
    /\ Forward({Ones(<<1>> \o self.input_shape)})

NextScenario ==
    \/ Scenario__init__
    \/ ConvolutionTwoD_init_weights
    \/ Scenario_assign
    \/ Scenario_forward_pass

SpecScenario == Init /\ [][NextScenario]_vars

(***************************************************************************)
(* Training a ConvolutionTwoD layer: forward and backward passes in any    *)
(* order on a trainable or frozen layer, with each kind of optimizer.      *)
(***************************************************************************)
TrainMaxHW == 2
TrainMaxFltr == 2

TrainFilterShapes == (1..TrainMaxFltr) \X (1..TrainMaxFltr)

TrainInputShapes == Channels \X (2..TrainMaxHW) \X (2..TrainMaxHW)

\* The gradients handed to backward_pass: of the shape of the output.
Gradients(shape) == {Ramp(shape)}

\* The shape of the gradient the caller passes: that of the last output or
\* gradient, and before any forward pass that of a one-image output.
GradientShape ==
    IF op = "forward_pass" /\ ret.ok THEN ret.shape
    ELSE IF op = "backward_pass" THEN arg.grad.shape
    ELSE <<1>> \o output_shape(self)

\* backward_pass(grad).  arg records the call: the gradient, the layer and the
\* heap before it, what the np.empty buffer held, whether forward_pass was ever
\* called, and forward_W_col, the W_col that the last successful forward_pass
\* computed (None when there is none).
Backward ==
    /\ self.class = "ConvolutionTwoD"
    /\ op \in {"__init__", "init_weights", "forward_pass", "backward_pass"}
    /\ calls < MaxCalls
    /\ \E grad \in Gradients(GradientShape), mem \in UninitialisedMemory :
         LET r == backward_pass(self, grad, heap, mem)
         IN  /\ self' = r.self
             /\ heap' = r.heap
             /\ ret' = r.ret
             /\ arg' = [grad |-> grad, before |-> self, heap |-> heap, memory |-> mem,
                        forwarded |-> op = "forward_pass"
                                          \/ (op = "backward_pass" /\ arg.forwarded),
                        forward_W_col |->
                            IF op = "forward_pass" /\ ret.ok THEN self.W_col
                            ELSE IF op = "backward_pass" THEN arg.forward_W_col
                            ELSE None]
    /\ op' = "backward_pass"
    /\ calls' = calls + 1

Train__init__ ==
    Construct({2}, TrainFilterShapes, TrainInputShapes, BOOLEAN, {1}, BOOLEAN)

Train_init_weights == InitWeights(Optimizers)

Train_forward_pass ==
    ForwardAfter({"init_weights", "forward_pass", "backward_pass"},
                 {Ramp(<<2>> \o self.input_shape)})

ConvolutionTwoD_backward_pass == Backward

NextTrain ==
    \/ Train__init__
    \/ Train_init_weights
    \/ Train_forward_pass
    \/ ConvolutionTwoD_backward_pass

SpecTrain == Init /\ [][NextTrain]_vars

(***************************************************************************)
(* Properties.  The definitions below state what the specification says in *)
(* its own terms (padded image, windows, output size); none of them models *)
(* code.                                                                   *)
(***************************************************************************)
IsConv == self.class = "ConvolutionTwoD"

PadLow(f, padding) == IF padding THEN (f - 1) \div 2 ELSE 0

PadTotal(f, padding) == IF padding THEN f - 1 ELSE 0

\* (in + pad_low + pad_high - filter) for the two axes of layer or call s.
ExtentH(in_h, fh, padding) == in_h + PadTotal(fh, padding) - fh

\* The output size is a non-negative integer.
ValidSize(n, stride) == n >= 0 /\ n % stride = 0

ValidConv(s) ==
    /\ ValidSize(ExtentH(s.input_shape[2], s.filter_shape[1], s.padding), s.stride)
    /\ ValidSize(ExtentH(s.input_shape[3], s.filter_shape[2], s.padding), s.stride)

SizeOf(n, stride) == (n \div stride) + 1

\* Entry (b, c, y, x) of the zero-padded image, y and x in padded coordinates.
XPadded(X, fltr_shape, padding, b, c, y, x) ==
    LET yy == y - PadLow(fltr_shape[1], padding)
        xx == x - PadLow(fltr_shape[2], padding)
        C == X.shape[2]
        H == X.shape[3]
        W == X.shape[4]
    IN  IF yy >= 0 /\ yy < H /\ xx >= 0 /\ xx < W
        THEN X.data[((b * C + c) * H + yy) * W + xx + 1]
        ELSE 0

\* bias[f] + sum over (c, u, v) of W[f, c, u, v] * Xpadded[b, c, i*stride+u, j*stride+v]
ConvAt(s, X, b, f, i, j) ==
    LET C == s.input_shape[1]
        fh == s.filter_shape[1]
        fw == s.filter_shape[2]
    IN  s.weight_out.data[f + 1]
        + Sum([c \in 1..C |->
            Sum([u \in 1..fh |->
              Sum([v \in 1..fw |->
                s.weight_.data[((f * C + (c - 1)) * fh + (u - 1)) * fw + v]
                  * XPadded(X, s.filter_shape, s.padding, b, c - 1,
                            i * s.stride + (u - 1), j * s.stride + (v - 1))])])])

\* C1: for every batch of images (B, C, H, W), weights (F, C, fh, fw), bias,
\* stride and padding mode with a valid output size, forward_pass returns a
\* tensor of shape (B, F, out_h, out_w) with out[b, f, i, j] = bias[f] + the sum
\* over (c, u, v) of W[f, c, u, v] * Xpadded[b, c, i*stride+u, j*stride+v].
C1_ForwardIsConvolution ==
    (IsConv /\ op = "forward_pass" /\ self.weight_.ok /\ ValidConv(self)) =>
        LET B == arg.shape[1]
            F == self.no_of_filters
            oh == SizeOf(ExtentH(self.input_shape[2], self.filter_shape[1],
                                 self.padding), self.stride)
            ow == SizeOf(ExtentH(self.input_shape[3], self.filter_shape[2],
                                 self.padding), self.stride)
        IN  /\ ret.ok
            /\ ret.shape = <<B, F, oh, ow>>
            /\ \A b \in 0..(B - 1), f \in 0..(F - 1), i \in 0..(oh - 1), j \in 0..(ow - 1) :
                 ret.data[((b * F + f) * oh + i) * ow + j + 1]
                    = ConvAt(self, arg, b, f, i, j)

\* A two-image, two-channel batch through two 2x2 filters at stride 2 with same
\* padding and a non-zero bias has been convolved.
C1_Witness ==
    /\ IsConv
    /\ op = "forward_pass"
    /\ ret.ok
    /\ self.input_shape = <<2, 3, 3>>
    /\ self.filter_shape = <<2, 2>>
    /\ self.stride = 2
    /\ self.padding
    /\ self.weight_out.data = <<1, 2>>
    /\ self.weight_.data[2] = 2
    /\ ret.shape = <<2, 2, 2, 2>>

\* C2: two 3x3 filters of ones, stride 1, same padding, zero bias, on a
\* (1, 1, 4, 4) image of ones: the output has shape (1, 2, 4, 4) and holds, for
\* both filters, 9 at the four interior positions, 4 at the four corners and 6
\* at the other border positions.
C2_ScenarioOutput ==
    (/\ IsConv
     /\ op = "forward_pass"
     /\ self.no_of_filters = 2
     /\ self.filter_shape = <<3, 3>>
     /\ self.stride = 1
     /\ self.padding
     /\ self.weight_ = Ones(<<2, 1, 3, 3>>)
     /\ self.weight_out = Zeros(<<2, 1>>)
     /\ arg = Ones(<<1, 1, 4, 4>>)) =>
        /\ ret.ok
        /\ ret.shape = <<1, 2, 4, 4>>
        /\ ret.data = <<4, 6, 6, 4,  6, 9, 9, 6,  6, 9, 9, 6,  4, 6, 6, 4,
                        4, 6, 6, 4,  6, 9, 9, 6,  6, 9, 9, 6,  4, 6, 6, 4>>

C2_Witness ==
    /\ IsConv
    /\ op = "forward_pass"
    /\ self.filter_shape = <<3, 3>>
    /\ self.weight_ = Ones(<<2, 1, 3, 3>>)
    /\ self.weight_out = Zeros(<<2, 1>>)
    /\ arg = Ones(<<1, 1, 4, 4>>)
    /\ ret.ok
    /\ ret.data[6] = 9

\* The filter fits the padded image on both axes of the call whose arguments are a.
FilterFits(a) ==
    /\ ExtentH(a.images.shape[3], a.fltr_shape[1], a.output_shape) >= 0
    /\ ExtentH(a.images.shape[4], a.fltr_shape[2], a.output_shape) >= 0

ValidCall(a) ==
    /\ ValidSize(ExtentH(a.images.shape[3], a.fltr_shape[1], a.output_shape), a.stride)
    /\ ValidSize(ExtentH(a.images.shape[4], a.fltr_shape[2], a.output_shape), a.stride)

\* The sum of the entries of the column matrix a.cols whose (channel, row, col)
\* index is the position (b, c, y, x) of the unpadded image.
ColumnSumAt(a, b, c, y, x) ==
    LET B == a.images.shape[1]
        fh == a.fltr_shape[1]
        fw == a.fltr_shape[2]
        oh == SizeOf(ExtentH(a.images.shape[3], fh, a.output_shape), a.stride)
        ow == SizeOf(ExtentH(a.images.shape[4], fw, a.output_shape), a.stride)
        R == a.images.shape[2] * fh * fw
        Q == oh * ow
    IN  Sum([t \in 1..(R * Q) |->
            LET r == (t - 1) \div Q
                q == (t - 1) % Q
            IN  IF /\ r \div (fh * fw) = c
                   /\ ((r % (fh * fw)) \div fw) + a.stride * (q \div ow)
                        = y + PadLow(fh, a.output_shape)
                   /\ (r % fw) + a.stride * (q % ow) = x + PadLow(fw, a.output_shape)
                THEN a.cols.data[r * (Q * B) + q * B + b + 1]
                ELSE 0])

\* The number of filter windows that cover pixel y (or x) of an axis.
CoverCount(in, f, padding, stride, y) ==
    LET o == SizeOf(ExtentH(in, f, padding), stride)
    IN  Cardinality({w \in (0..(o - 1)) \X (0..(f - 1)) :
                        w[1] * stride + w[2] = y + PadLow(f, padding)})

PixelsOf(shape) ==
    (0..(shape[1] - 1)) \X (0..(shape[2] - 1)) \X (0..(shape[3] - 1)) \X (0..(shape[4] - 1))

PixelAt(img, p) ==
    img.data[((p[1] * img.shape[2] + p[2]) * img.shape[3] + p[3]) * img.shape[4] + p[4] + 1]

\* C3: reshape_col_to_image returns, at every position of the unpadded image,
\* exactly the sum of the column entries that map to that position, and nothing
\* that the buffer held before.
C3_ColToImageIsExactSum ==
    (op = "reshape_col_to_image" /\ FilterFits(arg)) =>
        /\ ret.ok
        /\ ret.shape = arg.images.shape
        /\ \A p \in PixelsOf(arg.images.shape) :
             PixelAt(ret, p) = ColumnSumAt(arg, p[1], p[2], p[3], p[4])

\* C4: with stride >= filter extent on both axes and a valid configuration,
\* reshape_col_to_image of reshape_image_to_col returns the original image.
C4_RoundTripWithoutOverlap ==
    (/\ op = "reshape_col_to_image"
     /\ ValidCall(arg)
     /\ arg.stride >= arg.fltr_shape[1]
     /\ arg.stride >= arg.fltr_shape[2]) =>
        ret = arg.images

\* C5: with overlapping windows (stride < filter extent) and a valid
\* configuration, reshape_col_to_image of reshape_image_to_col returns at each
\* pixel the original value times the number of windows that cover the pixel.
C5_RoundTripScalesByOverlap ==
    (/\ op = "reshape_col_to_image"
     /\ ValidCall(arg)
     /\ (arg.stride < arg.fltr_shape[1] \/ arg.stride < arg.fltr_shape[2])) =>
        /\ ret.ok
        /\ ret.shape = arg.images.shape
        /\ \A p \in PixelsOf(arg.images.shape) :
             PixelAt(ret, p) =
                PixelAt(arg.images, p)
                  * CoverCount(arg.images.shape[3], arg.fltr_shape[1],
                               arg.output_shape, arg.stride, p[3])
                  * CoverCount(arg.images.shape[4], arg.fltr_shape[2],
                               arg.output_shape, arg.stride, p[4])

\* C6: the (filters, height, width) of output_shape() are the non-batch
\* dimensions of the tensor forward_pass returns for an input of shape
\* (B,) + input_shape, and the output size computed inside
\* get_img_cols_indices is the same pair of numbers; forward_pass returns a
\* tensor whenever these sizes are not negative.
C6_OutputShapeMatchesForward ==
    (IsConv /\ op = "forward_pass" /\ self.weight_.ok) =>
        LET shp == output_shape(self)
            ind == get_img_cols_indices(arg.shape, self.filter_shape,
                       get_padding(self.filter_shape, self.padding), self.stride)
        IN  /\ ind.out_height = shp[2]
            /\ ind.out_width = shp[3]
            /\ shp[1] = self.no_of_filters
            /\ ret.ok => ret.shape = <<arg.shape[1]>> \o shp
            /\ (shp[2] >= 0 /\ shp[3] >= 0) => ret.ok

\* forward_pass has returned a tensor for a stride-2 layer without padding
\* whose input is not square.
C6_Witness ==
    /\ IsConv
    /\ op = "forward_pass"
    /\ ret.ok
    /\ self.input_shape = <<2, 3, 2>>
    /\ self.filter_shape = <<1, 2>>
    /\ self.stride = 2
    /\ ~self.padding
    /\ ret.shape = <<2, 2, 2, 1>>

\* C7: get_padding returns ((0, 0), (0, 0)) when same-padding is off; otherwise,
\* per axis of filter extent f, the pair (floor((f-1)/2), ceil((f-1)/2)): the
\* two edges sum to f - 1 and the high edge exceeds the low one by at most one.
C7_PaddingIsFloorCeil ==
    (op = "get_padding") =>
        IF ~arg.output_shape THEN ret = <<<<0, 0>>, <<0, 0>>>>
        ELSE \A ax \in 1..2 :
                LET f == arg.fltr_shape[ax]
                    low == ret[ax][1]
                    high == ret[ax][2]
                IN  /\ 2 * low <= f - 1
                    /\ f - 1 < 2 * low + 2
                    /\ 2 * high >= f - 1
                    /\ f - 1 > 2 * high - 2
                    /\ low + high = f - 1
                    /\ high - low \in {0, 1}

\* get_padding has returned an uneven split for an even filter height.
C7_Witness ==
    /\ op = "get_padding"
    /\ arg.output_shape
    /\ arg.fltr_shape = <<2, 1>>
    /\ ret = <<<<0, 1>>, <<0, 0>>>>

\* C8: with same-padding on and stride 1, output_shape() reports the input
\* height and width, for odd and even filter extents.
C8_SamePaddingKeepsSize ==
    (IsConv /\ op = "output_shape" /\ self.padding /\ self.stride = 1) =>
        /\ ret[2] = self.input_shape[2]
        /\ ret[3] = self.input_shape[3]

\* output_shape() has returned for an even filter on an odd-sized input.
C8_Witness ==
    /\ IsConv
    /\ op = "output_shape"
    /\ self.padding
    /\ self.stride = 1
    /\ self.filter_shape = <<2, 2>>
    /\ self.input_shape = <<1, 3, 1>>
    /\ ret = <<self.no_of_filters, 3, 1>>

\* (n / stride + 1) is not an integer, or is negative.
BadSize(n, stride) == n % stride # 0 \/ n + stride < 0

BadConv(s) ==
    \/ BadSize(ExtentH(s.input_shape[2], s.filter_shape[1], s.padding), s.stride)
    \/ BadSize(ExtentH(s.input_shape[3], s.filter_shape[2], s.padding), s.stride)

\* C9: a configuration whose output size is not an integer or is negative is
\* rejected with an error: output_shape() returns no shape for it and
\* forward_pass returns no tensor.
C9_InvalidSizeIsRejected ==
    (IsConv /\ BadConv(self)) =>
        /\ op # "output_shape"
        /\ (op = "forward_pass" /\ self.weight_.ok) => ~ret.ok

\* C10, as stated: Activation(name) succeeds and binds an activation function
\* for relu, sigmoid, selu, softplus, leaky_relu, elu, tanh and softmax.
C10_SpecNamesConstruct ==
    (op = "Activation" /\ arg \in {"relu", "sigmoid", "selu", "softplus",
                                   "leaky_relu", "elu", "tanh", "softmax"}) =>
        /\ ret.ok
        /\ self.class = "Activation"
        /\ self.activation_func # "None"

\* C10, amended: Activation(name) succeeds and binds the registered activation
\* function for ReLu, sigmoid, selu, softplus, leaky_relu, elu, tanh and softmax.
C10_RegistryNamesConstruct ==
    (op = "Activation" /\ arg \in {"ReLu", "sigmoid", "selu", "softplus",
                                   "leaky_relu", "elu", "tanh", "softmax"}) =>
        /\ ret.ok
        /\ self.class = "Activation"
        /\ self.activation_name = arg
        /\ self.activation_func \in {"Rectified_Linear_Units", "Sigmoid", "SELU",
                                     "SoftPlus", "LeakyReLu", "ELU", "TanH", "SoftMax"}

\* Activation('ReLu') has been constructed.
C10_Witness ==
    /\ op = "Activation"
    /\ arg = "ReLu"
    /\ ret.ok
    /\ self.class = "Activation"
    /\ self.activation_func = "Rectified_Linear_Units"

\* C11: Activation(name) with a name that is not in the registry raises at
\* construction, and no Activation object without an activation function exists.
C11_UnknownNameRaises ==
    /\ (op = "Activation" /\ arg \notin DOMAIN activation_functions) =>
           (ret = Raise /\ self.class = "none")
    /\ self.class = "Activation" =>
           /\ self.activation_name \in DOMAIN activation_functions
           /\ self.activation_func = activation_functions[self.activation_name]

\* Activation('linear') has raised.
C11_Witness ==
    /\ op = "Activation"
    /\ arg = "linear"
    /\ ret = Raise
    /\ self.class = "none"

\* The gradient for the input that the weights W_col, the gradient grad and the
\* input shape cached in the layer s give.
InputGradient(W_col, s, grad, mem) ==
    LET accumulated_grad ==
            Reshape(Transpose(grad, <<1, 2, 3, 0>>), <<s.no_of_filters, -1>>)
    IN  reshape_col_to_image(Dot(Transpose(W_col, <<1, 0>>), accumulated_grad),
                             s.input_layer.shape, s.filter_shape, s.stride,
                             s.padding, mem)

\* C12: backward_pass of a trainable layer returns the input gradient of the
\* W_col that the paired forward_pass computed, whatever the optimizer does
\* with the parameter tensor it is given.
C12_GradientUsesForwardWeights ==
    (op = "backward_pass" /\ arg.before.trainable /\ arg.forward_W_col.ok) =>
        ret = InputGradient(arg.forward_W_col, arg.before, arg.grad, arg.memory)

\* C13: forward_pass and backward_pass of a frozen layer leave weights, bias,
\* optimizers and their state as they were, and backward_pass returns what the
\* trainable layer returns from the same state.
C13_FrozenLayerKeepsParameters ==
    [][(op' \in {"forward_pass", "backward_pass"} /\ ~self.trainable) =>
          /\ self'.weight_ = self.weight_
          /\ self'.weight_out = self.weight_out
          /\ self'.optimized_w = self.optimized_w
          /\ self'.optimized_w_out = self.optimized_w_out
          /\ heap' = heap
          /\ op' = "backward_pass" =>
                ret' = backward_pass([self EXCEPT !.trainable = TRUE],
                                     arg'.grad, heap, arg'.memory).ret]_vars

\* C14: the optimizers bound to weights and bias, and the prototype they were
\* copied from, keep independent state: a backward pass, which calls update
\* once on each bound optimizer, moves the count each one shows by at most one
\* and leaves the prototype, never updated, showing none.
C14_OptimizersAreIndependent ==
    (op = "backward_pass" /\ arg.before.weight_.ok) =>
        /\ optimizer_state(self.optimized_w, heap)
              <= optimizer_state(arg.before.optimized_w, arg.heap) + 1
        /\ optimizer_state(self.optimized_w_out, heap)
              <= optimizer_state(arg.before.optimized_w_out, arg.heap) + 1
        /\ optimizer_state([self.optimized_w EXCEPT !.t = 0], heap) = 0

\* C15: init_weights draws the weights from [-limit, limit] with
\* limit^2 * (filter_height * filter_width * input_channels) = 1, into a tensor
\* of shape (no_of_filters, input_channels, filter_height, filter_width), and
\* sets the bias to one zero per filter.
C15_WeightInitialisation ==
    op = "init_weights" =>
        /\ arg.inverse_limit_squared =
               self.filter_shape[1] * self.filter_shape[2] * self.input_shape[1]
        /\ self.weight_.shape = <<self.no_of_filters, self.input_shape[1],
                                  self.filter_shape[1], self.filter_shape[2]>>
        /\ \A k \in 1..Len(self.weight_.data) :
               /\ self.weight_.data[k] <= Prod(self.weight_.shape)
               /\ -self.weight_.data[k] <= Prod(self.weight_.shape)
        /\ Len(self.weight_out.data) = self.no_of_filters
        /\ \A k \in 1..Len(self.weight_out.data) : self.weight_out.data[k] = 0

(***************************************************************************)
(* The layers without spatial structure act on matrices (batch, units).    *)
(***************************************************************************)
MaxUnits == 2

MatrixShapes == (1..2) \X (1..MaxUnits)

\* a * b of two matrices with numpy broadcasting: a dimension of 1 stretches.
Multiply(a, b) ==
    IF ~a.ok \/ ~b.ok THEN Raise
    ELSE IF \E d \in 1..2 : a.shape[d] # b.shape[d] /\ a.shape[d] # 1 /\ b.shape[d] # 1
    THEN Raise
    ELSE LET rows == IF a.shape[1] = 1 THEN b.shape[1] ELSE a.shape[1]
             cols == IF a.shape[2] = 1 THEN b.shape[2] ELSE a.shape[2]
             At(m, i, j) == m.data[(IF m.shape[1] = 1 THEN 0 ELSE i) * m.shape[2]
                                   + (IF m.shape[2] = 1 THEN 0 ELSE j) + 1]
         IN  Arr(<<rows, cols>>,
                 [o \in 1..(rows * cols) |->
                     At(a, (o - 1) \div cols, (o - 1) % cols)
                         * At(b, (o - 1) \div cols, (o - 1) % cols)])

(***************************************************************************)
(* class DropOut.  Probabilities and the uniform draws of [0, 1) are       *)
(* counted in units of 1 / ProbUnit; the inputs are multiples of ProbUnit, *)
(* so that X * (1 - p) is exact.                                           *)
(***************************************************************************)
ProbUnit == 2

\* p from 0 to 1.
Probabilities == 0..ProbUnit

\* np.random.uniform(size=shape): every element is drawn from [0, 1).
UniformDraws(shape) ==
    {Arr(shape, d) : d \in [1..Prod(shape) -> 0..(ProbUnit - 1)]}

DropOutInputs == {Scale(ProbUnit, Ramp(shape)) : shape \in MatrixShapes}

\* np.random.uniform(size=X.shape) > self.p, True as 1 and False as 0.
DropOut_mask(draws, p) ==
    Arr(draws.shape, [k \in 1..Len(draws.data) |-> IF draws.data[k] > p THEN 1 ELSE 0])

\* X * (1 - self.p)
DropOut_scale(X, p) ==
    Arr(X.shape, [k \in 1..Len(X.data) |-> (X.data[k] * (ProbUnit - p)) \div ProbUnit])

DropOut__init__ ==
    /\ self.class = "none"
    /\ op = "none"
    /\ \E p \in Probabilities :
         /\ self' = [class |-> "DropOut", p |-> p, _mask |-> None,
                     no_of_units |-> None, input_shape |-> None,
                     pass_through |-> TRUE, trainable |-> TRUE]
         /\ arg' = p
    /\ op' = "__init__"
    /\ ret' = <<>>
    /\ UNCHANGED <<heap, calls>>

\* forward_pass(X, training); arg.draws is what np.random.uniform returned when
\* it was called.
DropOut_forward_pass ==
    /\ self.class = "DropOut"
    /\ calls < MaxCalls
    /\ \E X \in DropOutInputs, training \in BOOLEAN :
       \E draws \in IF training THEN UniformDraws(X.shape) ELSE {None} :
         /\ self' = [self EXCEPT !._mask = IF training THEN DropOut_mask(draws, self.p)
                                                        ELSE @]
         /\ ret' = IF training THEN Multiply(X, DropOut_mask(draws, self.p))
                               ELSE DropOut_scale(X, self.p)
         /\ arg' = [X |-> X, training |-> training, draws |-> draws]
    /\ op' = "forward_pass"
    /\ calls' = calls + 1
    /\ UNCHANGED heap

\* backward_pass(accumulated_grad) with a gradient of the shape of the last
\* input; arg.forwarded tells whether forward_pass was ever called and
\* arg.last_training how the last one was called.
DropOut_backward_pass ==
    /\ self.class = "DropOut"
    /\ calls < MaxCalls
    /\ \E shape \in MatrixShapes :
         /\ op = "forward_pass" => shape = arg.X.shape
         /\ op = "backward_pass" => shape = arg.grad.shape
         /\ ret' = IF self._mask.ok THEN Multiply(Ramp(shape), self._mask) ELSE Raise
         /\ arg' = [grad |-> Ramp(shape),
                    forwarded |-> op = "forward_pass"
                                      \/ (op = "backward_pass" /\ arg.forwarded),
                    last_training |->
                        IF op = "forward_pass" THEN <<arg.training>>
                        ELSE IF op = "backward_pass" THEN arg.last_training
                        ELSE <<>>]
    /\ op' = "backward_pass"
    /\ calls' = calls + 1
    /\ UNCHANGED <<self, heap>>

NextDropOut ==
    \/ DropOut__init__
    \/ DropOut_forward_pass
    \/ DropOut_backward_pass

SpecDropOut == Init /\ [][NextDropOut]_vars

(***************************************************************************)
(* class Flatten and class Reshape                                         *)
(***************************************************************************)
\* An attribute that holds a shape: None until forward_pass sets it.
ShapeValue(shape) == [ok |-> TRUE, shape |-> shape, data |-> <<>>]

TensorInputs ==
    {Ramp(<<b, c, 1, w>>) : b \in 1..2, c \in Channels, w \in 1..MaxUnits}

\* What a.reshape(None) does: numpy 1.x returns a view of a, unchanged; a
\* numpy that rejects None as a shape raises.
ReshapeNoneOutcomes == {"view", "error"}

\* accumulated_grad.reshape(self.previous_shape)
reshape_to_previous(grad, previous_shape, outcome) ==
    IF previous_shape.ok THEN Reshape(grad, previous_shape.shape)
    ELSE IF outcome = "view" THEN grad
    ELSE Raise

\* The gradient the caller passes: of the shape of the last output, of the
\* last gradient, or before any call of any matrix shape.
MatrixGradients ==
    IF op = "forward_pass" /\ ret.ok /\ Len(ret.shape) = 2 THEN {Ramp(ret.shape)}
    ELSE IF op = "backward_pass" THEN {arg.grad}
    ELSE {Ramp(shape) : shape \in MatrixShapes}

Forwarded ==
    op = "forward_pass" \/ (op \in {"backward_pass", "set_trainable"} /\ arg.forwarded)

Flatten__init__ ==
    /\ self.class = "none"
    /\ op = "none"
    /\ self' = [class |-> "Flatten", previous_shape |-> None, trainable |-> TRUE,
                input_shape |-> None]
    /\ op' = "__init__"
    /\ arg' = <<>>
    /\ ret' = <<>>
    /\ UNCHANGED <<heap, calls>>

Flatten_forward_pass ==
    /\ self.class = "Flatten"
    /\ calls < MaxCalls
    /\ \E X \in TensorInputs :
         /\ self' = [self EXCEPT !.previous_shape = ShapeValue(X.shape)]
         /\ ret' = Reshape(X, <<X.shape[1], -1>>)
         /\ arg' = [X |-> X]
    /\ op' = "forward_pass"
    /\ calls' = calls + 1
    /\ UNCHANGED heap

\* backward_pass of Flatten and of Reshape: the same statement.
PreviousShapeBackward(class) ==
    /\ self.class = class
    /\ calls < MaxCalls
    /\ \E grad \in MatrixGradients, outcome \in ReshapeNoneOutcomes :
         /\ ret' = reshape_to_previous(grad, self.previous_shape, outcome)
         /\ arg' = [grad |-> grad, forwarded |-> Forwarded, outcome |-> outcome,
                    output_of |-> IF op = "forward_pass" /\ grad = ret THEN arg.X
                                  ELSE None]
    /\ op' = "backward_pass"
    /\ calls' = calls + 1
    /\ UNCHANGED <<self, heap>>

Flatten_backward_pass == PreviousShapeBackward("Flatten")

ReshapeTargets == {<<1, u>> : u \in 1..MaxUnits} \cup {<<u, 1>> : u \in 1..MaxUnits}

Reshape__init__ ==
    /\ self.class = "none"
    /\ op = "none"
    /\ \E shape \in ReshapeTargets :
         /\ self' = [class |-> "Reshape", previous_shape |-> None, trainable |-> TRUE,
                     shape |-> shape, input_shape |-> None]
         /\ arg' = shape
    /\ op' = "__init__"
    /\ ret' = <<>>
    /\ UNCHANGED <<heap, calls>>

Reshape_forward_pass ==
    /\ self.class = "Reshape"
    /\ calls < MaxCalls
    /\ \E shape \in MatrixShapes :
         /\ self' = [self EXCEPT !.previous_shape = ShapeValue(shape)]
         /\ ret' = Reshape(Ramp(shape), <<shape[1]>> \o self.shape)
         /\ arg' = [X |-> Ramp(shape)]
    /\ op' = "forward_pass"
    /\ calls' = calls + 1
    /\ UNCHANGED heap

\* The gradient handed to Reshape.backward_pass has the shape of its output.
Reshape_backward_pass ==
    /\ self.class = "Reshape"
    /\ calls < MaxCalls
    /\ \E outcome \in ReshapeNoneOutcomes :
       \E grad \in IF op = "forward_pass" /\ ret.ok THEN {Ramp(ret.shape)}
                   ELSE IF op = "backward_pass" THEN {arg.grad}
                   ELSE {Ramp(<<b>> \o self.shape) : b \in 1..2} :
         /\ ret' = reshape_to_previous(grad, self.previous_shape, outcome)
         /\ arg' = [grad |-> grad, forwarded |-> Forwarded, outcome |-> outcome,
                    output_of |-> IF op = "forward_pass" /\ grad = ret THEN arg.X
                                  ELSE None]
    /\ op' = "backward_pass"
    /\ calls' = calls + 1
    /\ UNCHANGED <<self, heap>>

NextReshaping ==
    \/ Flatten__init__
    \/ Flatten_forward_pass
    \/ Flatten_backward_pass
    \/ Reshape__init__
    \/ Reshape_forward_pass
    \/ Reshape_backward_pass

SpecReshaping == Init /\ [][NextReshaping]_vars

(***************************************************************************)
(* class Dense                                                             *)
(***************************************************************************)
\* A Python number held where a tensor is expected (self.weight = 0).
Scalar(x) == Arr(<<>>, <<x>>)

\* np.sum(a, axis=0, keepdims=True) of a matrix.
SumAxis0(a) ==
    IF ~a.ok THEN Raise
    ELSE LET n == a.shape[2]
         IN  Arr(<<1, n>>,
                 [j \in 1..n |->
                     Sum([i \in 1..a.shape[1] |-> a.data[(i - 1) * n + j]])])

\* X.dot(W): the matrix product, and for a number W the multiple of X.
DotOrScale(X, W) ==
    IF ~X.ok \/ ~W.ok THEN Raise
    ELSE IF W.shape = <<>> THEN Scale(W.data[1], X)
    ELSE Dot(X, W)

\* M + row for M of shape (b, n) and row of shape (1, n) or a number.
AddRow(M, row) ==
    IF ~M.ok \/ ~row.ok THEN Raise
    ELSE IF row.shape = <<>>
    THEN Arr(M.shape, [o \in 1..Len(M.data) |-> M.data[o] + row.data[1]])
    ELSE IF row.shape[2] # M.shape[2] THEN Raise
    ELSE Arr(M.shape,
             [o \in 1..Len(M.data) |-> M.data[o] + row.data[((o - 1) % M.shape[2]) + 1]])

\* return accumulated_grad.dot(weight_.T): a number has no attribute T.
dense_return(t, h, weight_, grad) ==
    [self |-> t, heap |-> h,
     ret |-> IF ~weight_.ok \/ weight_.shape = <<>> THEN Raise
             ELSE Dot(grad, Transpose(weight_, <<1, 0>>))]

\* self.weight_out = self.optimized_w_out.update(self.weight_out, weight_out_grad)
dense_update_weight_out(s1, h1, weight_, grad, u2) ==
    IF ~u2.ok THEN [self |-> s1, heap |-> h1, ret |-> Raise]
    ELSE dense_return([s1 EXCEPT !.weight_out = u2.value,
                                 !.optimized_w_out = u2.optimizer],
                      u2.heap, weight_, grad)

\* self.weight = self.optimized_w.update(self.weight, weight_grad).  The local
\* weight_ is bound to the tensor self.weight held: an update in place changes
\* that tensor, a new tensor leaves it as it was.
dense_update_weight(s, h, grad, u1) ==
    IF ~u1.ok THEN [self |-> s, heap |-> h, ret |-> Raise]
    ELSE dense_update_weight_out(
             [s EXCEPT !.weight = u1.value, !.optimized_w = u1.optimizer],
             u1.heap,
             IF s.optimized_w.in_place THEN u1.value ELSE s.weight,
             grad,
             optimizer_update(s.optimized_w_out, s.weight_out, SumAxis0(grad), u1.heap))

\* if self.trainable: weight_grad = self.input_layer.T.dot(accumulated_grad) ...
dense_update(s, h, grad, weight_grad) ==
    IF ~weight_grad.ok \/ s.optimized_w = None
    THEN [self |-> s, heap |-> h, ret |-> Raise]
    ELSE dense_update_weight(s, h, grad,
                             optimizer_update(s.optimized_w, s.weight, weight_grad, h))

\* backward_pass that updates the parameters whatever trainable says.
dense_backward_pass_always_updating(s, grad, h) ==
    dense_update(s, h, grad, Dot(Transpose(s.input_layer, <<1, 0>>), grad))

\* The layer, the heap and the returned gradient after Dense.backward_pass(grad).
dense_backward_pass(s, grad, h) ==
    IF ~s.trainable THEN dense_return(s, h, s.weight, grad)
    ELSE dense_update(s, h, grad, Dot(Transpose(s.input_layer, <<1, 0>>), grad))

Dense__init__ ==
    /\ self.class = "none"
    /\ op = "none"
    /\ \E units \in 1..MaxUnits, inputs \in 1..MaxUnits :
         /\ self' = [class |-> "Dense", input_layer |-> None, input_shape |-> <<inputs>>,
                     units |-> units, trainable |-> TRUE,
                     weight |-> Scalar(0), weight_out |-> Scalar(0),
                     optimized_w |-> None, optimized_w_out |-> None]
         /\ arg' = [units |-> units, input_shape |-> <<inputs>>]
    /\ op' = "__init__"
    /\ ret' = <<>>
    /\ UNCHANGED <<heap, calls>>

\* 1 / limit^2 for limit = 1 / math.sqrt(self.input_shape[0]).
dense_inverse_limit_squared(s) == s.input_shape[1]

Dense_init_weights ==
    /\ self.class = "Dense"
    /\ op = "__init__"
    /\ \E optimizer \in Optimizers :
         /\ \E w \in WeightDraws(<<self.input_shape[1], self.units>>) :
              self' = [self EXCEPT !.weight = w,
                                   !.weight_out = Zeros(<<1, self.units>>),
                                   !.optimized_w = copy_copy(optimizer),
                                   !.optimized_w_out = copy_copy(optimizer)]
         /\ arg' = [optimizer |-> optimizer,
                    inverse_limit_squared |-> dense_inverse_limit_squared(self)]
    /\ op' = "init_weights"
    /\ ret' = <<>>
    /\ UNCHANGED <<heap, calls>>

\* The owner of the layer freezes or unfreezes it: layer.trainable = flag.
Layer_set_trainable(class) ==
    /\ self.class = class
    /\ op # "set_trainable"
    /\ self' = [self EXCEPT !.trainable = ~self.trainable]
    /\ op' = "set_trainable"
    /\ arg' = [trainable |-> ~self.trainable, forwarded |-> Forwarded]
    /\ ret' = <<>>
    /\ UNCHANGED <<heap, calls>>

Dense_set_trainable == Layer_set_trainable("Dense")

Dense_forward_pass ==
    /\ self.class = "Dense"
    /\ calls < MaxCalls
    /\ \E b \in 1..2 :
         LET X == Ramp(<<b, self.input_shape[1]>>)
         IN  /\ self' = [self EXCEPT !.input_layer = X]
             /\ ret' = AddRow(DotOrScale(X, self.weight), self.weight_out)
             /\ arg' = [X |-> X, before |-> self]
    /\ op' = "forward_pass"
    /\ calls' = calls + 1
    /\ UNCHANGED heap

\* The gradient handed to Dense.backward_pass: (batch, units).
Dense_backward_pass ==
    /\ self.class = "Dense"
    /\ calls < MaxCalls
    /\ \E grad \in IF self.input_layer.ok
                   THEN {Ramp(<<self.input_layer.shape[1], self.units>>)}
                   ELSE {Ramp(<<b, self.units>>) : b \in 1..2} :
         LET r == dense_backward_pass(self, grad, heap)
         IN  /\ self' = r.self
             /\ heap' = r.heap
             /\ ret' = r.ret
             /\ arg' = [grad |-> grad, before |-> self, heap |-> heap,
                        forwarded |-> Forwarded]
    /\ op' = "backward_pass"
    /\ calls' = calls + 1

NextDense ==
    \/ Dense__init__
    \/ Dense_init_weights
    \/ Dense_set_trainable
    \/ Dense_forward_pass
    \/ Dense_backward_pass

SpecDense == Init /\ [][NextDense]_vars

(***************************************************************************)
(* Exact arithmetic for BatchNormalization: rationals <<n, d>> in lowest   *)
(* terms with d > 0, and multiples c * sqrt(p / r) of a square root, p and *)
(* r square-free and coprime, so that equal numbers are equal values.      *)
(***************************************************************************)
Abs(n) == IF n < 0 THEN -n ELSE n

RECURSIVE GCD(_, _)
GCD(a, b) == IF b = 0 THEN a ELSE GCD(b, a % b)

Rat(n, d) ==
    IF d < 0 THEN <<(-n) \div GCD(Abs(n), Abs(d)), (-d) \div GCD(Abs(n), Abs(d))>>
    ELSE <<n \div GCD(Abs(n), d), d \div GCD(Abs(n), d)>>

RatAdd(x, y) == Rat(x[1] * y[2] + y[1] * x[2], x[2] * y[2])

RatSub(x, y) == Rat(x[1] * y[2] - y[1] * x[2], x[2] * y[2])

RatMul(x, y) == Rat(x[1] * y[1], x[2] * y[2])

\* The largest s from k upwards whose square divides n.
RECURSIVE LargestSquare(_, _)
LargestSquare(n, k) ==
    IF k * k > n THEN 1
    ELSE IF n % (k * k) = 0 THEN k * LargestSquare(n \div (k * k), k)
    ELSE LargestSquare(n, k + 1)

SquareFree(n) == n \div (LargestSquare(n, 2) * LargestSquare(n, 2))

\* The number a + c * sqrt(p / r).
Value(a, c, p, r) ==
    IF c[1] = 0 THEN [a |-> a, c |-> c, p |-> 1, r |-> 1]
    ELSE IF p = 1 /\ r = 1 THEN [a |-> RatAdd(a, c), c |-> <<0, 1>>, p |-> 1, r |-> 1]
    ELSE [a |-> a, c |-> c, p |-> p, r |-> r]

\* 1 / np.sqrt(q) for a rational q = n / d > 0: sqrt(d / n).
InverseSqrt(q) ==
    Value(<<0, 1>>, Rat(LargestSquare(q[2], 2), LargestSquare(q[1], 2)),
          SquareFree(q[2]), SquareFree(q[1]))

\* x * v for a rational x and a multiple v of a square root.
ValueScale(x, v) == Value(RatMul(x, v.a), RatMul(x, v.c), v.p, v.r)

\* v + x for a rational x.
ValueShift(v, x) == Value(RatAdd(v.a, x), v.c, v.p, v.r)

(***************************************************************************)
(* class BatchNormalization                                                *)
(***************************************************************************)
\* self.eps = 0.01
Eps == <<1, 100>>

\* BatchNormalization(momentum=...): 0.8, as the DCGAN builds its layers.
Momenta == {<<4, 5>>}

SampleValues == {0, 2}

\* The samples of f features, and the batches of one or two of them.
Samples(f) == {[j \in 1..f |-> v * j] : v \in SampleValues}

Batches(f) ==
    {Arr(<<1, f>>, x) : x \in Samples(f)}
        \cup {Arr(<<2, f>>, x \o y) : x \in Samples(f), y \in Samples(f)}

\* Row i of a matrix.
Row(a, i) == [j \in 1..a.shape[2] |-> a.data[(i - 1) * a.shape[2] + j]]

ColumnSum(X, j) == Sum([i \in 1..X.shape[1] |-> Row(X, i)[j]])

ColumnSumOfSquares(X, j) == Sum([i \in 1..X.shape[1] |-> Row(X, i)[j] * Row(X, i)[j]])

\* np.mean(X, axis=0)
Mean0(X) ==
    Arr(<<X.shape[2]>>, [j \in 1..X.shape[2] |-> Rat(ColumnSum(X, j), X.shape[1])])

\* np.var(X, axis=0): the mean of the squares less the square of the mean.
Var0(X) ==
    Arr(<<X.shape[2]>>,
        [j \in 1..X.shape[2] |->
            Rat(X.shape[1] * ColumnSumOfSquares(X, j) - ColumnSum(X, j) * ColumnSum(X, j),
                X.shape[1] * X.shape[1])])

\* self.momentum * running + (1 - self.momentum) * stat
MovingAverage(momentum, running, stat) ==
    Arr(running.shape,
        [j \in 1..Len(running.data) |->
            RatAdd(RatMul(momentum, running.data[j]),
                   RatMul(RatSub(<<1, 1>>, momentum), stat.data[j]))])

\* X - mean
Centre(X, mean) ==
    Arr(X.shape,
        [o \in 1..Len(X.data) |->
            RatSub(<<X.data[o], 1>>, mean.data[((o - 1) % X.shape[2]) + 1])])

\* 1 / np.sqrt(var + self.eps)
InvStdDev(var, eps) ==
    Arr(var.shape, [j \in 1..Len(var.data) |-> InverseSqrt(RatAdd(var.data[j], eps))])

\* self.gamma * (X_centred * inv_std_dev) + self.beta
ScaleAndShift(gamma, beta, X_centred, inv_std_dev) ==
    Arr(X_centred.shape,
        [o \in 1..Len(X_centred.data) |->
            ValueShift(
                ValueScale(RatMul(gamma.data[((o - 1) % X_centred.shape[2]) + 1],
                                  X_centred.data[o]),
                           inv_std_dev.data[((o - 1) % X_centred.shape[2]) + 1]),
                beta.data[((o - 1) % X_centred.shape[2]) + 1])])

\* if self.running_mean is None: the running statistics start as the batch's.
initial_running_statistics(s, X) ==
    IF s.running_mean = None
    THEN [s EXCEPT !.running_mean = Mean0(X), !.running_var = Var0(X)]
    ELSE s

\* if training and self.trainable: ... else: ...
statistics(s, X, training) ==
    IF training /\ s.trainable
    THEN [self |-> [s EXCEPT !.running_mean =
                                 MovingAverage(s.momentum, s.running_mean, Mean0(X)),
                             !.running_var =
                                 MovingAverage(s.momentum, s.running_var, Var0(X))],
          mean |-> Mean0(X), var |-> Var0(X)]
    ELSE [self |-> s, mean |-> s.running_mean, var |-> s.running_var]

\* Stats saved for backward pass.
saved_statistics(st, X) ==
    [st.self EXCEPT !.X_centred = Centre(X, st.mean),
                    !.inv_std_dev = InvStdDev(st.var, st.self.eps)]

\* return self.gamma * X_normalized + self.beta: without init_weights there is
\* no gamma.
normalized(s) ==
    [self |-> s,
     ret |-> IF s.gamma = None THEN Raise
             ELSE ScaleAndShift(s.gamma, s.beta, s.X_centred, s.inv_std_dev)]

\* The layer and the output after BatchNormalization.forward_pass(X, training).
batch_normalization_forward_pass(s, X, training) ==
    normalized(saved_statistics(statistics(initial_running_statistics(s, X), X, training), X))

BatchNormalization__init__ ==
    /\ self.class = "none"
    /\ op = "none"
    /\ \E momentum \in Momenta :
         /\ self' = [class |-> "BatchNormalization", momentum |-> momentum,
                     trainable |-> TRUE, eps |-> Eps,
                     running_var |-> None, running_mean |-> None,
                     input_shape |-> None, gamma |-> None, beta |-> None,
                     gamma_opt |-> None, beta_opt |-> None,
                     X_centred |-> None, inv_std_dev |-> None]
         /\ arg' = momentum
    /\ op' = "__init__"
    /\ ret' = <<>>
    /\ UNCHANGED <<heap, calls>>

BatchNormalization_set_input_shape ==
    /\ self.class = "BatchNormalization"
    /\ op = "__init__"
    /\ \E f \in 1..MaxUnits :
         /\ self' = [self EXCEPT !.input_shape = <<f>>]
         /\ arg' = <<f>>
    /\ op' = "set_input_shape"
    /\ ret' = <<>>
    /\ UNCHANGED <<heap, calls>>

\* gamma = np.ones(self.input_shape), beta = np.zeros(self.input_shape).
BatchNormalization_init_weights ==
    /\ self.class = "BatchNormalization"
    /\ op \in {"__init__", "set_input_shape", "forward_pass"}
    /\ self.gamma = None
    /\ \E optimizer \in Optimizers :
         /\ arg' = optimizer
         /\ IF self.input_shape = None
            THEN /\ self' = self
                 /\ ret' = Raise
            ELSE /\ self' = [self EXCEPT
                                !.gamma = Arr(self.input_shape,
                                              [j \in 1..self.input_shape[1] |-> <<1, 1>>]),
                                !.beta = Arr(self.input_shape,
                                             [j \in 1..self.input_shape[1] |-> <<0, 1>>]),
                                !.gamma_opt = copy_copy(optimizer),
                                !.beta_opt = copy_copy(optimizer)]
                 /\ ret' = <<>>
    /\ op' = "init_weights"
    /\ UNCHANGED <<heap, calls>>

BatchNormalization_set_trainable == Layer_set_trainable("BatchNormalization")

BatchNormalization_forward_pass ==
    /\ self.class = "BatchNormalization"
    /\ self.input_shape # None
    /\ calls < MaxCalls
    /\ \E X \in Batches(self.input_shape[1]), training \in BOOLEAN :
         /\ self' = batch_normalization_forward_pass(self, X, training).self
         /\ ret' = batch_normalization_forward_pass(self, X, training).ret
         /\ arg' = [X |-> X, training |-> training, before |-> self]
    /\ op' = "forward_pass"
    /\ calls' = calls + 1
    /\ UNCHANGED heap

NextBatchNorm ==
    \/ BatchNormalization__init__
    \/ BatchNormalization_set_input_shape
    \/ BatchNormalization_init_weights
    \/ BatchNormalization_set_trainable
    \/ BatchNormalization_forward_pass

SpecBatchNorm == Init /\ [][NextBatchNorm]_vars

\* C16: with p = 0 forward_pass returns its input in training and in inference
\* mode, whatever np.random.uniform draws from [0, 1); with p = 1 a training
\* forward_pass returns zeros.
C16_DropOutExtremes ==
    (self.class = "DropOut" /\ op = "forward_pass") =>
        /\ self.p = 0 => ret = arg.X
        /\ (self.p = ProbUnit /\ arg.training) => ret = Zeros(arg.X.shape)

\* C17: an inference-mode forward_pass leaves no mask cached, and a
\* backward_pass whose last forward_pass was in inference mode raises.
C17_BackwardAfterInferenceRaises ==
    self.class = "DropOut" =>
        /\ (op = "forward_pass" /\ ~arg.training) => self._mask = None
        /\ (op = "backward_pass" /\ arg.last_training = <<FALSE>>) => ret = Raise

\* C18: backward_pass on a layer on which forward_pass was never called raises
\* an error and returns no gradient.
C18_BackwardBeforeForwardRaises ==
    (op = "backward_pass" /\ ~arg.forwarded) => ret = Raise

\* C19: an inference-mode forward_pass gives a sample the same output whatever
\* other samples share its batch, in every state of the layer, the first
\* forward_pass included.
C19_InferenceIndependentOfBatch ==
    (self.class = "BatchNormalization" /\ op = "forward_pass" /\ ~arg.training /\ ret.ok) =>
        \A Y \in Batches(arg.X.shape[2]) :
            \A i \in 1..arg.X.shape[1], j \in 1..Y.shape[1] :
                Row(arg.X, i) = Row(Y, j) =>
                    Row(ret, i) =
                        Row(batch_normalization_forward_pass(arg.before, Y, FALSE).ret, j)

\* C20: forward_pass normalizes with the batch statistics and moves the running
\* statistics towards them exactly when training and trainable; otherwise it
\* normalizes with the stored running statistics and leaves them unchanged.
C20_StatisticsByMode ==
    (self.class = "BatchNormalization" /\ op = "forward_pass" /\ ret.ok) =>
        IF arg.training /\ arg.before.trainable
        THEN /\ self.X_centred = Centre(arg.X, Mean0(arg.X))
             /\ self.inv_std_dev = InvStdDev(Var0(arg.X), Eps)
             /\ self.running_mean =
                    MovingAverage(self.momentum,
                                  IF arg.before.running_mean = None THEN Mean0(arg.X)
                                  ELSE arg.before.running_mean,
                                  Mean0(arg.X))
             /\ self.running_var =
                    MovingAverage(self.momentum,
                                  IF arg.before.running_var = None THEN Var0(arg.X)
                                  ELSE arg.before.running_var,
                                  Var0(arg.X))
        ELSE /\ self.running_mean = arg.before.running_mean
             /\ self.running_var = arg.before.running_var
             /\ self.X_centred = Centre(arg.X, arg.before.running_mean)
             /\ self.inv_std_dev = InvStdDev(arg.before.running_var, Eps)

\* C21: every forward_pass overwrites the state cached for backward_pass: after
\* the call, in either mode, the cached mask is the one this call drew and
\* nothing of an earlier call is retained.
C21_ForwardOverwritesCache ==
    (self.class = "DropOut" /\ op = "forward_pass") =>
        self._mask = IF arg.training THEN DropOut_mask(arg.draws, self.p) ELSE None

(***************************************************************************)
(* paramitize: the number of parameters of a layer                         *)
(***************************************************************************)
\* The weights alone, without the bias / shift tensor.
paramitize_weights_only(s) ==
    IF s.class = "ConvolutionTwoD"
    THEN IF s.weight_ = None THEN Raise ELSE Prod(s.weight_.shape)
    ELSE IF s.class = "Dense"
    THEN IF s.weight.shape = <<>> THEN Raise ELSE Prod(s.weight.shape)
    ELSE IF s.class = "BatchNormalization"
    THEN IF s.gamma = None THEN Raise ELSE Prod(s.gamma.shape)
    ELSE 0

\* What layer.paramitize() returns: the overriding method of ConvolutionTwoD,
\* Dense and BatchNormalization reads the shapes of the parameter tensors and
\* raises where the attribute is missing or is the number 0; every other
\* layer inherits Layer.paramitize.
paramitize(s) ==
    IF s.class = "ConvolutionTwoD"
    THEN IF s.weight_ = None THEN Raise
         ELSE Prod(s.weight_.shape) + Prod(s.weight_out.shape)
    ELSE IF s.class = "Dense"
    THEN IF s.weight.shape = <<>> THEN Raise
         ELSE Prod(s.weight.shape) + Prod(s.weight_out.shape)
    ELSE IF s.class = "BatchNormalization"
    THEN IF s.gamma = None THEN Raise
         ELSE Prod(s.gamma.shape) + Prod(s.beta.shape)
    ELSE 0

Layer_paramitize ==
    /\ self.class # "none"
    /\ op # "paramitize"
    /\ ret' = paramitize(self)
    /\ arg' = [before |-> self, heap |-> heap]
    /\ op' = "paramitize"
    /\ UNCHANGED <<self, heap, calls>>

NextParameters ==
    \/ ConvolutionTwoD__init__
    \/ ConvolutionTwoD_init_weights
    \/ Dense__init__
    \/ Dense_init_weights
    \/ BatchNormalization__init__
    \/ BatchNormalization_set_input_shape
    \/ BatchNormalization_init_weights
    \/ DropOut__init__
    \/ Flatten__init__
    \/ Reshape__init__
    \/ Layer_paramitize

SpecParameters == Init /\ [][NextParameters]_vars

MaxPad == 1

MaxSize == 2

\* The calls of forward_pass and backward_pass explored on a padding or
\* upsampling layer.
MaxImageCalls == 2

\* An entry of the padding argument: a Python int n, held as <<n>>, or a tuple
\* of two ints.
IntEntry(n) == [type |-> "int", value |-> <<n>>]

TupleEntry(a, b) == [type |-> "tuple", value |-> <<a, b>>]

PaddingEntries ==
    {IntEntry(n) : n \in 0..MaxPad}
        \cup {TupleEntry(a, b) : a \in 0..MaxPad, b \in 0..MaxPad}

PaddingArguments == PaddingEntries \X PaddingEntries

\* pad_value of a ConstantPadding2D; ZeroPadding2D pads with 0.
PadValues == {7}

\* ConstantPadding2D._set_padding(padding): each statement builds the new
\* pair from the argument, not from what the statement before it stored.
set_padding(s, padding) ==
    LET s1 == IF padding[1].type # "tuple"
              THEN [s EXCEPT !.padding =
                        <<TupleEntry(padding[1].value[1], padding[1].value[1]), padding[2]>>]
              ELSE s
    IN  IF padding[2].type # "tuple"
        THEN [s1 EXCEPT !.padding =
                 <<padding[1], TupleEntry(padding[2].value[1], padding[2].value[1])>>]
        ELSE s1

\* The object after ConstantPadding2D.__init__(padding, pad_value); __init__
\* assigns no input_shape.
constant_padding_init(class, padding, pad_value) ==
    set_padding([class |-> class, padding |-> padding, trainable |-> TRUE,
                 pad_value |-> pad_value, input_shape |-> None],
                padding)

\* The object after ZeroPadding2D.__init__(padding).
zero_padding_init(padding) ==
    LET s == constant_padding_init("ZeroPadding2D", padding, 0)
    IN  IF padding[1].type = "int"
        THEN [s EXCEPT !.padding =
                 <<TupleEntry(padding[1].value[1], padding[1].value[1]), padding[2]>>]
        ELSE IF padding[2].type = "int"
        THEN [s EXCEPT !.padding =
                 <<padding[1], TupleEntry(padding[2].value[1], padding[2].value[1])>>]
        ELSE s

ConstantPadding2D__init__ ==
    /\ self.class = "none"
    /\ op = "none"
    /\ \E padding \in PaddingArguments, pad_value \in PadValues :
         /\ self' = constant_padding_init("ConstantPadding2D", padding, pad_value)
         /\ arg' = [padding |-> padding, pad_value |-> pad_value]
    /\ op' = "__init__"
    /\ ret' = <<>>
    /\ UNCHANGED <<heap, calls>>

ZeroPadding2D__init__ ==
    /\ self.class = "none"
    /\ op = "none"
    /\ \E padding \in PaddingArguments :
         /\ self' = zero_padding_init(padding)
         /\ arg' = [padding |-> padding, pad_value |-> 0]
    /\ op' = "__init__"
    /\ ret' = <<>>
    /\ UNCHANGED <<heap, calls>>

UpSamplingSizes == (1..MaxSize) \X (1..MaxSize)

UpSampling2D__init__ ==
    /\ self.class = "none"
    /\ op = "none"
    /\ \E size \in UpSamplingSizes :
         /\ self' = [class |-> "UpSampling2D", trainable |-> TRUE,
                     previous_shape |-> None, size |-> size, input_shape |-> None]
         /\ arg' = size
    /\ op' = "__init__"
    /\ ret' = <<>>
    /\ UNCHANGED <<heap, calls>>

Min(a, b) == IF a < b THEN a ELSE b

\* np.pad(X, ((0, 0), (0, 0), pad_h, pad_w), mode='constant', constant_values=value)
PadConstant(X, pad_h, pad_w, value) ==
    LET padded == Pad(X, pad_h, pad_w)
        strd == Strides(padded.shape)
    IN  Arr(padded.shape,
            [o \in 1..Len(padded.data) |->
                IF /\ Unravel(o - 1, padded.shape, strd)[3] \in
                          pad_h[1]..(pad_h[1] + X.shape[3] - 1)
                   /\ Unravel(o - 1, padded.shape, strd)[4] \in
                          pad_w[1]..(pad_w[1] + X.shape[4] - 1)
                THEN padded.data[o]
                ELSE value])

\* a[:, :, y0:y0 + h, x0:x0 + w]: a slice ends where the axis ends.
SliceWithin(a, y0, h, x0, w) ==
    Slice(a, Min(y0, a.shape[3]), Min(y0 + h, a.shape[3]) - Min(y0, a.shape[3]),
          Min(x0, a.shape[4]), Min(x0 + w, a.shape[4]) - Min(x0, a.shape[4]))

\* np.sum of an entry of the padding: of the int itself or of the pair.
EntrySum(entry) == Sum(entry.value)

AllPairs(padding) == padding[1].type = "tuple" /\ padding[2].type = "tuple"

\* ConstantPadding2D.forward_pass: np.pad rejects a pad_width that mixes
\* numbers and pairs.
padding_forward_pass(s, X) ==
    IF ~AllPairs(s.padding) THEN Raise
    ELSE PadConstant(X, s.padding[1].value, s.padding[2].value, s.pad_value)

\* backward_pass that slices from the padding of the high edge.
padding_backward_pass_from_high_edge(s, accumulated_grad) ==
    IF ~AllPairs(s.padding) \/ ~s.input_shape.ok THEN Raise
    ELSE SliceWithin(accumulated_grad,
                     s.padding[1].value[2], s.input_shape.shape[2],
                     s.padding[2].value[2], s.input_shape.shape[3])

\* ConstantPadding2D.backward_pass: self.padding[0][0] of an int raises, and so
\* does self.input_shape when set_input_shape was never called.
padding_backward_pass(s, accumulated_grad) ==
    IF ~AllPairs(s.padding) \/ ~s.input_shape.ok THEN Raise
    ELSE SliceWithin(accumulated_grad,
                     s.padding[1].value[1], s.input_shape.shape[2],
                     s.padding[2].value[1], s.input_shape.shape[3])

\* X.repeat(self.size[0], axis=2).repeat(self.size[1], axis=3)
upsampling_forward_pass(s, X) ==
    LET ns == <<X.shape[1], X.shape[2], X.shape[3] * s.size[1], X.shape[4] * s.size[2]>>
    IN  Arr(ns,
            [o \in 1..Prod(ns) |->
                X.data[Ravel(<<Unravel(o - 1, ns, Strides(ns))[1],
                               Unravel(o - 1, ns, Strides(ns))[2],
                               Unravel(o - 1, ns, Strides(ns))[3] \div s.size[1],
                               Unravel(o - 1, ns, Strides(ns))[4] \div s.size[2]>>,
                             Strides(X.shape)) + 1]])

\* accumulated_grad[:, :, ::self.size[0], ::self.size[1]]
upsampling_backward_pass(s, accumulated_grad) ==
    LET g == accumulated_grad
        ns == <<g.shape[1], g.shape[2],
                (g.shape[3] + s.size[1] - 1) \div s.size[1],
                (g.shape[4] + s.size[2] - 1) \div s.size[2]>>
    IN  Arr(ns,
            [o \in 1..Prod(ns) |->
                g.data[Ravel(<<Unravel(o - 1, ns, Strides(ns))[1],
                               Unravel(o - 1, ns, Strides(ns))[2],
                               Unravel(o - 1, ns, Strides(ns))[3] * s.size[1],
                               Unravel(o - 1, ns, Strides(ns))[4] * s.size[2]>>,
                             Strides(g.shape)) + 1]])

PaddingClasses == {"ConstantPadding2D", "ZeroPadding2D"}

ImageClasses == PaddingClasses \cup {"UpSampling2D"}

\* output_shape() of the layers without parameters, input_shape being set.
geometry_output_shape(s) ==
    IF s.class = "Flatten" THEN <<Prod(s.input_shape.shape)>>
    ELSE IF s.class = "Reshape" THEN s.shape
    ELSE IF s.class \in PaddingClasses
    THEN <<s.input_shape.shape[1],
           s.input_shape.shape[2] + EntrySum(s.padding[1]),
           s.input_shape.shape[3] + EntrySum(s.padding[2])>>
    ELSE <<s.input_shape.shape[1], s.size[1] * s.input_shape.shape[2], s.size[2] * s.input_shape.shape[3]>>

ImageShapes == Channels \X (1..MaxUnits) \X (1..MaxUnits)

\* The input shapes the network hands to a layer of the class.
InputShapesOf(class) ==
    IF class = "Flatten" THEN {Tail(X.shape) : X \in TensorInputs}
    ELSE IF class = "Reshape" THEN {<<shape[2]>> : shape \in MatrixShapes}
    ELSE ImageShapes

Layer_set_input_shape ==
    /\ self.class \in ImageClasses \cup {"Flatten", "Reshape"}
    /\ op = "__init__"
    /\ \E shape \in InputShapesOf(self.class) :
         /\ self' = [self EXCEPT !.input_shape = ShapeValue(shape)]
         /\ arg' = shape
    /\ op' = "set_input_shape"
    /\ ret' = <<>>
    /\ UNCHANGED <<heap, calls>>

Layer_output_shape ==
    /\ self.class \in ImageClasses \cup {"Flatten", "Reshape"}
    /\ op = "set_input_shape"
    /\ ret' = geometry_output_shape(self)
    /\ arg' = <<>>
    /\ op' = "output_shape"
    /\ UNCHANGED <<self, heap, calls>>

\* forward_pass(X) of a padding or upsampling layer, on a batch of the input
\* shape the layer was given, or on one image of any shape when it was given
\* none.
Image_forward_pass ==
    /\ self.class \in ImageClasses
    /\ calls < MaxImageCalls
    /\ \E b \in 1..2, shape \in ImageShapes :
         /\ self.input_shape.ok => shape = self.input_shape.shape
         /\ ~self.input_shape.ok => b = 1
         /\ self' = IF self.class = "UpSampling2D"
                    THEN [self EXCEPT !.previous_shape = ShapeValue(<<b>> \o shape)]
                    ELSE self
         /\ ret' = IF self.class = "UpSampling2D"
                   THEN upsampling_forward_pass(self, Ramp(<<b>> \o shape))
                   ELSE padding_forward_pass(self, Ramp(<<b>> \o shape))
         /\ arg' = [X |-> Ramp(<<b>> \o shape)]
    /\ op' = "forward_pass"
    /\ calls' = calls + 1
    /\ UNCHANGED heap

\* backward_pass(accumulated_grad): the gradient is the output of the last
\* forward_pass, the last gradient again, or before any call a small image.
Image_backward_pass ==
    /\ self.class \in ImageClasses
    /\ calls < MaxImageCalls
    /\ \E grad \in IF op = "forward_pass" /\ ret.ok THEN {ret}
                   ELSE IF op = "backward_pass" THEN {arg.grad}
                   ELSE {Ramp(<<1, 1, 2, 2>>)} :
         /\ ret' = IF self.class = "UpSampling2D"
                   THEN upsampling_backward_pass(self, grad)
                   ELSE padding_backward_pass(self, grad)
         /\ arg' = [grad |-> grad, forwarded |-> Forwarded,
                    output_of |-> IF op = "forward_pass" /\ grad = ret THEN arg.X
                                  ELSE None]
    /\ op' = "backward_pass"
    /\ calls' = calls + 1
    /\ UNCHANGED <<self, heap>>

NextGeometry ==
    \/ Flatten__init__
    \/ Flatten_forward_pass
    \/ Flatten_backward_pass
    \/ Reshape__init__
    \/ Reshape_forward_pass
    \/ Reshape_backward_pass
    \/ ConstantPadding2D__init__
    \/ ZeroPadding2D__init__
    \/ UpSampling2D__init__
    \/ Layer_set_input_shape
    \/ Layer_output_shape
    \/ Image_forward_pass
    \/ Image_backward_pass

SpecGeometry == Init /\ [][NextGeometry]_vars

C24_IntegerPaddingIsSymmetric ==
    (self.class \in PaddingClasses /\ op = "__init__") =>
        \A k \in 1..2 :
            self.padding[k] =
                IF arg.padding[k].type = "int"
                THEN TupleEntry(arg.padding[k].value[1], arg.padding[k].value[1])
                ELSE arg.padding[k]

\* The index arrays ind of a call with the given channels, filter, stride and
\* padded extents are those of the claim, entry by entry, and stay inside the
\* padded image.
IndicesAsClaimed(ind, channels, fh, fw, stride, padded_h, padded_w) ==
    LET out_h == ((padded_h - fh) \div stride) + 1
        out_w == ((padded_w - fw) \div stride) + 1
        rows == channels * fh * fw
        cols == out_h * out_w
    IN  /\ ind.ok
        /\ ind.k.shape = <<rows, 1>>
        /\ ind.i.shape = <<rows, cols>>
        /\ ind.j.shape = <<rows, cols>>
        /\ \A r \in 0..(rows - 1) :
             /\ ind.k.data[r + 1] = r \div (fh * fw)
             /\ \A q \in 0..(cols - 1) :
                  /\ ind.i.data[r * cols + q + 1] =
                         ((r % (fh * fw)) \div fw) + stride * (q \div out_w)
                  /\ ind.j.data[r * cols + q + 1] = (r % fw) + stride * (q % out_w)
                  /\ ind.i.data[r * cols + q + 1] < padded_h
                  /\ ind.j.data[r * cols + q + 1] < padded_w

\* C25: row r and column q of the index arrays of get_img_cols_indices select
\* channel r div (fh*fw), padded row ((r mod (fh*fw)) div fw) + stride*(q div out_w)
\* and padded column (r mod fw) + stride*(q mod out_w), and whenever the filter
\* is no larger than the padded input every index is inside the padded image.
C25_IndexArrays ==
    (op = "reshape_image_to_col" /\ FilterFits(arg)) =>
        IndicesAsClaimed(
            get_img_cols_indices(arg.images.shape, arg.fltr_shape,
                                 get_padding(arg.fltr_shape, arg.output_shape),
                                 arg.stride),
            arg.images.shape[2], arg.fltr_shape[1], arg.fltr_shape[2], arg.stride,
            arg.images.shape[3] + Sum(get_padding(arg.fltr_shape, arg.output_shape)[1]),
            arg.images.shape[4] + Sum(get_padding(arg.fltr_shape, arg.output_shape)[2]))

\* A padded call with two channels, a 2x2 filter and stride 2 on 3x3 images:
\* its last index selects the last row of the padded image.
C25_Witness ==
    /\ op = "reshape_image_to_col"
    /\ arg.images.shape = <<1, 2, 3, 3>>
    /\ arg.fltr_shape = <<2, 2>>
    /\ arg.stride = 2
    /\ arg.output_shape
    /\ ret.ok
    /\ get_img_cols_indices(arg.images.shape, arg.fltr_shape,
                            get_padding(arg.fltr_shape, arg.output_shape),
                            arg.stride).i.data[32] = 3

(***************************************************************************)
(* The parameter gradients of ConvolutionTwoD.backward_pass: one           *)
(* forward_pass and the backward_pass paired with it, with strides.        *)
(***************************************************************************)
GradMaxHW == 3

GradMaxFltr == 2

\* The strides of the layers whose gradients are examined.
GradStrides == {1, 2}

GradFilterShapes == (1..GradMaxFltr) \X (1..GradMaxFltr)

GradInputShapes == Channels \X (2..GradMaxHW) \X (2..GradMaxHW)

\* Optimizers whose update returns a new tensor or writes the one it is given.
GradOptimizers == {o \in Optimizers : ~o.state_object}

Gradient__init__ ==
    Construct({2}, GradFilterShapes, GradInputShapes, BOOLEAN, GradStrides, {TRUE})

Gradient_init_weights == InitWeights(GradOptimizers)

Gradient_forward_pass == ForwardAfter({"init_weights"}, {Ramp(<<2>> \o self.input_shape)})

Gradient_backward_pass == op = "forward_pass" /\ Backward

NextGradient ==
    \/ Gradient__init__
    \/ Gradient_init_weights
    \/ Gradient_forward_pass
    \/ Gradient_backward_pass

SpecGradient == Init /\ [][NextGradient]_vars

\* The sum over batch and output positions of
\* grad[b, f, i, j] * Xpadded[b, c, i*stride + u, j*stride + v], for every (f, c, u, v).
ExpectedWeightGradient(s, X, grad) ==
    LET shape == <<s.no_of_filters, X.shape[2], s.filter_shape[1], s.filter_shape[2]>>
        out_h == grad.shape[3]
        out_w == grad.shape[4]
    IN  Arr(shape,
            [o \in 1..Prod(shape) |->
                LET m == Unravel(o - 1, shape, Strides(shape))
                IN  Sum([n \in 1..(grad.shape[1] * out_h * out_w) |->
                            LET p == Unravel(n - 1, <<grad.shape[1], out_h, out_w>>,
                                             Strides(<<grad.shape[1], out_h, out_w>>))
                            IN  grad.data[((p[1] * s.no_of_filters + m[1]) * out_h + p[2])
                                              * out_w + p[3] + 1]
                                * XPadded(X, s.filter_shape, s.padding, p[1], m[2],
                                          p[2] * s.stride + m[3],
                                          p[3] * s.stride + m[4])])])

\* The sum of grad[b, f, i, j] over batch and output positions, for every f,
\* with shape (no_of_filters, 1).
ExpectedBiasGradient(s, grad) ==
    Arr(<<s.no_of_filters, 1>>,
        [f \in 1..s.no_of_filters |->
            Sum([n \in 1..(grad.shape[1] * grad.shape[3] * grad.shape[4]) |->
                    grad.data[((n - 1) \div (grad.shape[3] * grad.shape[4]))
                                  * (s.no_of_filters * grad.shape[3] * grad.shape[4])
                              + (f - 1) * (grad.shape[3] * grad.shape[4])
                              + ((n - 1) % (grad.shape[3] * grad.shape[4])) + 1]])])

\* w - g, entry by entry.
Subtract(w, g) == Arr(w.shape, [k \in 1..Len(w.data) |-> w.data[k] - g.data[k]])

\* C26: in the backward_pass of a trainable ConvolutionTwoD the gradient handed
\* to the weight optimizer is, for each (f, c, u, v), the sum over batch and
\* output positions of grad[b,f,i,j] * Xpadded[b,c,i*stride+u,j*stride+v], and
\* the gradient handed to the bias optimizer is the (no_of_filters, 1) tensor
\* of the sums of grad[b,f,i,j] over batch and output positions.
C26_ParameterGradients ==
    (/\ IsConv
     /\ op = "backward_pass"
     /\ arg.before.trainable
     /\ arg.forward_W_col.ok) =>
        /\ grad_weight_of(arg.before,
                          Reshape(Transpose(arg.grad, <<1, 2, 3, 0>>),
                                  <<self.no_of_filters, -1>>))
               = ExpectedWeightGradient(arg.before, arg.before.input_layer, arg.grad)
        /\ SumAxis1(Reshape(Transpose(arg.grad, <<1, 2, 3, 0>>),
                            <<self.no_of_filters, -1>>))
               = ExpectedBiasGradient(arg.before, arg.grad)
        /\ self.weight_ =
               Subtract(arg.before.weight_,
                        ExpectedWeightGradient(arg.before, arg.before.input_layer, arg.grad))
        /\ self.weight_out =
               Subtract(arg.before.weight_out, ExpectedBiasGradient(arg.before, arg.grad))

\* A padded stride-2 layer with two channels and a 2x2 filter on 3x3 images
\* has updated its parameters in backward_pass.
C26_Witness ==
    /\ IsConv
    /\ op = "backward_pass"
    /\ arg.before.trainable
    /\ arg.forward_W_col.ok
    /\ self.stride = 2
    /\ self.padding
    /\ self.filter_shape = <<2, 2>>
    /\ self.input_shape = <<2, 3, 3>>
    /\ arg.grad.shape = <<2, 2, 2, 2>>
    /\ ret.ok
    /\ self.weight_ # arg.before.weight_

\* C27: in the backward_pass of a trainable Dense layer the returned input
\* gradient is computed with the weight that was in effect during the paired
\* forward_pass, not with the value the optimizer assigned in the same call.
C27_BackwardUsesForwardWeight ==
    (/\ self.class = "Dense"
     /\ op = "backward_pass"
     /\ arg.forwarded
     /\ arg.before.trainable
     /\ ret.ok) =>
        ret = Dot(arg.grad, Transpose(arg.before.weight, <<1, 0>>))

\* C28: a forward_pass of a Dense layer called before init_weights fails with
\* an error and never returns an output tensor.
C28_ForwardBeforeInitWeightsRaises ==
    (/\ self.class = "Dense"
     /\ op = "forward_pass"
     /\ arg.before.optimized_w = None) =>
        ~ret.ok

(***************************************************************************)
(* class DCGAN: a generator and a discriminator network and the combined   *)
(* network holding the layers of both, trained in epochs.  The networks    *)
(* here are one Dense layer each; layers is the store of layer instances   *)
(* and a network's input_layers is the sequence of their addresses.        *)
(***************************************************************************)
MaxEpochs == 2

\* batch_size of train(); the half batch is batch_size // 2.
BatchSizesOfTrain == {2, 3}

\* latent_dims and the number of values of an image.
DcganDims == {1, 2}

\* Neural_Network.add_layer(Dense(units, input_shape)) followed by the
\* network's init_weights(optimizer) on it.
added_dense_layer(units, inputs, w, optimizer) ==
    [class |-> "Dense", input_layer |-> None, input_shape |-> <<inputs>>,
     units |-> units, trainable |-> TRUE,
     weight |-> w, weight_out |-> Zeros(<<1, units>>),
     optimized_w |-> copy_copy(optimizer), optimized_w_out |-> copy_copy(optimizer)]

\* Neural_Network.set_trainable(flag): layer.trainable = flag for its layers.
network_set_trainable(layers, ids, flag) ==
    [i \in DOMAIN layers |->
        IF \E k \in DOMAIN ids : ids[k] = i
        THEN [layers[i] EXCEPT !.trainable = flag]
        ELSE layers[i]]

\* The layers and the output after the forward passes of the layers at ids.
RECURSIVE network_forward_pass(_, _, _)
network_forward_pass(layers, ids, X) ==
    IF ids = <<>> THEN [layers |-> layers, ret |-> X]
    ELSE network_forward_pass(
             [layers EXCEPT ![Head(ids)].input_layer = X],
             Tail(ids),
             AddRow(DotOrScale(X, layers[Head(ids)].weight), layers[Head(ids)].weight_out))

\* One backward_pass of the layer at address i with what it leaves behind.
network_backward_step(layers, ids, r, i) ==
    [layers |-> [layers EXCEPT ![i] = r.self], ids |-> SubSeq(ids, 1, Len(ids) - 1),
     ret |-> r.ret, heap |-> r.heap]

\* The layers, the heap and the gradient after the backward passes of the
\* layers at ids, the last layer first.
RECURSIVE network_backward_pass(_, _, _, _)
RECURSIVE network_backward_from(_)
network_backward_pass(layers, ids, grad, h) ==
    IF ids = <<>> THEN [layers |-> layers, heap |-> h, ret |-> grad]
    ELSE network_backward_from(
             network_backward_step(layers, ids,
                                   dense_backward_pass(layers[ids[Len(ids)]], grad, h),
                                   ids[Len(ids)]))

network_backward_from(step) ==
    network_backward_pass(step.layers, step.ids, step.ret, step.heap)

\* loss.gradient(y, y_pred): a tensor of the shape of the prediction.
loss_gradient(y_pred) == IF y_pred.ok THEN Ones(y_pred.shape) ELSE Raise

network_train_from(f, ids, h) ==
    network_backward_pass(f.layers, ids, loss_gradient(f.ret), h)

\* Neural_Network.train_on_batch(X, y): forward pass, loss gradient, backward pass.
network_train_on_batch(layers, ids, X, h) ==
    network_train_from(network_forward_pass(layers, ids, X), ids, h)

\* layers = self.gen.input_layers + self.discriminator.input_layers
\* self.combined.input_layers += layers
extend_layers(s) ==
    [s EXCEPT !.combined = s.combined \o (s.gen \o s.discriminator)]

\* DCGAN(): the generator at address 1, the discriminator at address 2, the
\* combined network empty until extend_layers().
DCGAN__init__ ==
    /\ self.class = "none"
    /\ op = "none"
    /\ \E latent_dims \in DcganDims, image \in DcganDims, optimizer \in Optimizers,
          batch_size \in BatchSizesOfTrain :
         \E wg \in WeightDraws(<<latent_dims, image>>), wd \in WeightDraws(<<image, 2>>) :
            /\ self' = extend_layers(
                          [class |-> "DCGAN",
                           latent_dims |-> latent_dims,
                           img_shape |-> <<image>>,
                           layers |-> <<added_dense_layer(image, latent_dims, wg, optimizer),
                                        added_dense_layer(2, image, wd, optimizer)>>,
                           gen |-> <<1>>,
                           discriminator |-> <<2>>,
                           combined |-> <<>>,
                           batch_size |-> batch_size,
                           epoch |-> 0,
                           gen_images |-> None,
                           line |-> "train_discriminator"])
            /\ arg' = [optimizer |-> optimizer, after |-> op]
    /\ op' = "__init__"
    /\ ret' = <<>>
    /\ UNCHANGED <<heap, calls>>

\* A statement of train(): the one at line runs and next is the one after it.
TrainStatement(line, next, name) ==
    /\ self.class = "DCGAN"
    /\ self.line = line
    /\ self.epoch < MaxEpochs
    /\ op' = name
    /\ ret' = <<>>
    /\ UNCHANGED calls

\* self.discriminator.set_trainable(True)
DCGAN_train_discriminator ==
    /\ TrainStatement("train_discriminator", "make_prediction",
                      "discriminator.set_trainable(True)")
    /\ self' = [self EXCEPT !.layers = network_set_trainable(@, self.discriminator, TRUE),
                            !.line = "make_prediction"]
    /\ arg' = [before |-> self, after |-> op]
    /\ UNCHANGED heap

\* gen_images = self.gen.make_prediction(noise)
DCGAN_make_prediction ==
    /\ TrainStatement("make_prediction", "train_on_real", "gen.make_prediction")
    /\ LET noise == Ones(<<self.batch_size \div 2, self.latent_dims>>)
           f == network_forward_pass(self.layers, self.gen, noise)
       IN  /\ self' = [self EXCEPT !.layers = f.layers, !.gen_images = f.ret,
                                   !.line = "train_on_real"]
           /\ arg' = [before |-> self, after |-> op, noise |-> noise]
    /\ UNCHANGED heap

\* self.discriminator.train_on_batch(images, valid)
DCGAN_train_on_real ==
    /\ TrainStatement("train_on_real", "train_on_generated",
                      "discriminator.train_on_batch(images)")
    /\ LET images == Ones(<<self.batch_size \div 2>> \o self.img_shape)
           r == network_train_on_batch(self.layers, self.discriminator, images, heap)
       IN  /\ self' = [self EXCEPT !.layers = r.layers, !.line = "train_on_generated"]
           /\ heap' = r.heap
           /\ arg' = [before |-> self, after |-> op, X |-> images]

\* self.discriminator.train_on_batch(gen_images, fake)
DCGAN_train_on_generated ==
    /\ TrainStatement("train_on_generated", "train_gen",
                      "discriminator.train_on_batch(gen_images)")
    /\ LET r == network_train_on_batch(self.layers, self.discriminator,
                                       self.gen_images, heap)
       IN  /\ self' = [self EXCEPT !.layers = r.layers, !.line = "train_gen"]
           /\ heap' = r.heap
           /\ arg' = [before |-> self, after |-> op, X |-> self.gen_images]

\* self.discriminator.set_trainable(False)
DCGAN_train_gen ==
    /\ TrainStatement("train_gen", "combined", "discriminator.set_trainable(False)")
    /\ self' = [self EXCEPT !.layers = network_set_trainable(@, self.discriminator, FALSE),
                            !.line = "combined"]
    /\ arg' = [before |-> self, after |-> op]
    /\ UNCHANGED heap

\* self.g_loss, self.g_acc = self.combined.train_on_batch(noise, valid), the
\* last statement of the epoch.
DCGAN_combined_train_on_batch ==
    /\ TrainStatement("combined", "train_discriminator", "combined.train_on_batch")
    /\ LET noise == Ones(<<self.batch_size, self.latent_dims>>)
           r == network_train_on_batch(self.layers, self.combined, noise, heap)
       IN  /\ self' = [self EXCEPT !.layers = r.layers, !.line = "train_discriminator",
                                   !.epoch = @ + 1]
           /\ heap' = r.heap
           /\ arg' = [before |-> self, after |-> op, X |-> noise]

NextDCGAN ==
    \/ DCGAN__init__
    \/ DCGAN_train_discriminator
    \/ DCGAN_make_prediction
    \/ DCGAN_train_on_real
    \/ DCGAN_train_on_generated
    \/ DCGAN_train_gen
    \/ DCGAN_combined_train_on_batch

SpecDCGAN == Init /\ [][NextDCGAN]_vars

\* The gradient the generator's layer receives in the combined network's
\* backward pass when the discriminator's layer is left as it was.
GradientThroughDiscriminator(before, X) ==
    Dot(Ones(<<X.shape[1], 2>>), Transpose(before.layers[2].weight, <<1, 0>>))

\* The parameters of the layers at ids are in s what they are in t.
SameParameters(s, t, ids) ==
    \A k \in DOMAIN ids :
        /\ s.layers[ids[k]].weight = t.layers[ids[k]].weight
        /\ s.layers[ids[k]].weight_out = t.layers[ids[k]].weight_out

AllTrainable(s, ids, flag) == \A k \in DOMAIN ids : s.layers[ids[k]].trainable = flag

\* C29: in every DCGAN training epoch the discriminator is set trainable before
\* it is trained on the real and the generated half batches and set
\* non-trainable before the combined model is trained; the combined model
\* holds the layer instances of the generator and the discriminator, and when
\* its backward pass has run no discriminator parameter has changed while the
\* generator's parameters are updated.
C29_EpochOrdering ==
    self.class = "DCGAN" =>
        /\ self.combined = self.gen \o self.discriminator
        /\ op = "gen.make_prediction" => arg.after = "discriminator.set_trainable(True)"
        /\ op = "discriminator.train_on_batch(images)" =>
               /\ arg.after = "gen.make_prediction"
               /\ AllTrainable(arg.before, self.discriminator, TRUE)
        /\ op = "discriminator.train_on_batch(gen_images)" =>
               /\ arg.after = "discriminator.train_on_batch(images)"
               /\ AllTrainable(arg.before, self.discriminator, TRUE)
        /\ op = "discriminator.set_trainable(False)" =>
               arg.after = "discriminator.train_on_batch(gen_images)"
        /\ op = "combined.train_on_batch" =>
               /\ arg.after = "discriminator.set_trainable(False)"
               /\ AllTrainable(arg.before, self.discriminator, FALSE)
               /\ AllTrainable(arg.before, self.gen, TRUE)
               /\ SameParameters(self, arg.before, self.discriminator)
               /\ self.layers[1].weight =
                      Subtract(arg.before.layers[1].weight,
                               Dot(Transpose(arg.X, <<1, 0>>),
                                   GradientThroughDiscriminator(arg.before, arg.X)))
               /\ self.layers[1].weight_out =
                      Subtract(arg.before.layers[1].weight_out,
                               SumAxis0(GradientThroughDiscriminator(arg.before, arg.X)))

\* The combined model has been trained in the second epoch: the generator's
\* weights changed and the discriminator's, changed earlier in the epoch, did not.
C29_Witness ==
    /\ self.class = "DCGAN"
    /\ op = "combined.train_on_batch"
    /\ self.epoch = 2
    /\ self.latent_dims = 2
    /\ self.img_shape = <<2>>
    /\ self.batch_size = 3
    /\ self.layers[1].weight # arg.before.layers[1].weight
    /\ self.layers[2].weight = arg.before.layers[2].weight
    /\ self.layers[2].weight # Ramp(<<2, 2>>)
    /\ self.layers[2].weight # Ones(<<2, 2>>)

====
